---- MODULE Spec2Model ----
(***************************************************************************)
(* A model of the navigation core of age-of-sail: Graph::a_star            *)
(* (src/src/graph.rs) and the boundary / point queries of Map              *)
(* (src/src/map.rs).                                                       *)
(*                                                                         *)
(* Numbers.  Every f32 of the program is a fixed-point integer counting    *)
(* 1/FP units (FP = 64), so that sums, differences and products of the     *)
(* inputs used here are exact in f32 as well.  Square roots are rounded    *)
(* down to 1/FP.  Quotients that the code only compares with 0 and 1 are   *)
(* compared by cross-multiplication, which is exact.                       *)
(***************************************************************************)
EXTENDS Integers, Sequences, FiniteSets, TLC

FP == 64

\* Option: None is the empty sequence, Some(x) is <<x>>
None == <<>>

Some(x) == <<x>>

Abs(x) == IF x < 0 THEN -x ELSE x

RECURSIVE SqrtSearch(_, _, _)
SqrtSearch(n, lo, hi) ==
    IF lo >= hi THEN lo
    ELSE LET mid == (lo + hi + 1) \div 2
         IN  IF mid * mid <= n THEN SqrtSearch(n, mid, hi)
                               ELSE SqrtSearch(n, lo, mid - 1)

\* floor of the square root of n >= 0
ISqrt(n) ==
    IF n < 2 THEN n
    ELSE SqrtSearch(n, 1, IF n \div 2 + 1 > 46340 THEN 46340 ELSE n \div 2 + 1)

\* Point2::distance of two points, in 1/FP units
Distance(p, q) ==
    ISqrt((p[1] - q[1]) * (p[1] - q[1]) + (p[2] - q[2]) * (p[2] - q[2]))

(***************************************************************************)
(* Vectors and the geometric primitives of map.rs.  A point or vector is   *)
(* a pair <<x, y>>.                                                        *)
(***************************************************************************)
VecSub(p, q) == <<p[1] - q[1], p[2] - q[2]>>

VecAdd(p, q) == <<p[1] + q[1], p[2] + q[2]>>

Dot(u, v) == u[1] * v[1] + u[2] * v[2]

MagnitudeSquared(v) == Dot(v, v)

DistanceSquared(p, q) == MagnitudeSquared(VecSub(p, q))

\* n / d rounded to the nearest integer, d > 0
RoundDiv(n, d) == (2 * n + d) \div (2 * d)

\* n / d rounded to the nearest integer, d # 0
Quot(n, d) == IF d > 0 THEN RoundDiv(n, d) ELSE RoundDiv(-n, -d)

\* to_f32: an i32 point as an f32 point
to_f32(point) == <<point[1] * FP, point[2] * FP>>

\* cross_2d
cross_2d(vector_1, vector_2) ==
    vector_1[1] * vector_2[2] - vector_1[2] * vector_2[1]

\* The product a * b of two f32 is -0.0 when it is zero and exactly one
\* factor is negative (a zero factor is +0.0: it is a difference x - x).
IsNegZeroProduct(a, b) == (a < 0 /\ b = 0) \/ (a = 0 /\ b < 0)

\* f32::signum of cross_2d(vector_1, vector_2): 1.0 for a positive number
\* and +0.0, -1.0 for a negative number and -0.0.  The difference of two
\* zero products is -0.0 only as (-0.0) - (+0.0).
cross_signum(vector_1, vector_2) ==
    LET c == cross_2d(vector_1, vector_2)
    IN  IF c > 0 THEN 1
        ELSE IF c < 0 THEN -1
        ELSE IF /\ IsNegZeroProduct(vector_1[1], vector_2[2])
                /\ vector_1[2] * vector_2[1] = 0
                /\ ~IsNegZeroProduct(vector_1[2], vector_2[1])
             THEN -1
             ELSE 1

\* 0.02 as a cross product of two vectors in 1/FP units
OnLineTolerance == (2 * FP * FP) \div 100

\* on_line
on_line(point, line_start, line_direction) ==
    IF MagnitudeSquared(line_direction) = 0 THEN point = line_start
    ELSE LET start_point_line == VecSub(point, line_start)
             cross == cross_2d(start_point_line, line_direction)
             dot_product == Dot(start_point_line, line_direction)
             line_distance_squared == MagnitudeSquared(line_direction)
         IN  /\ Abs(cross) <= OnLineTolerance
             /\ dot_product >= 0
             /\ dot_product <= line_distance_squared

\* Vector2::normalize of a vector that is not zero: a vector of length FP
normalize(v) ==
    LET len16 == ISqrt(MagnitudeSquared(v) * 256)
    IN  <<RoundDiv(v[1] * FP * 16, len16), RoundDiv(v[2] * FP * 16, len16)>>

(***************************************************************************)
(* Graph::a_star                                                           *)
(***************************************************************************)
VARIABLES nodes, edges, start, end,
          frontier, came_from, cost_so_far, current,
          path, previous, route, pc

astar_vars == <<nodes, edges, start, end, frontier, came_from, cost_so_far,
                current, path, previous, route, pc>>

\* The node list of the tests of graph.rs: (0,0), (5,5), (2.5,2.5), (3,2).
TestNodes ==
    (0 :> <<0, 0>>) @@ (1 :> <<5 * FP, 5 * FP>>) @@
    (2 :> <<(5 * FP) \div 2, (5 * FP) \div 2>>) @@ (3 :> <<3 * FP, 2 * FP>>)

\* The edges a graph of the model may have: the pairs of the tests, the
\* remaining pair, and one pair in the other orientation.
EdgeCandidates ==
    {<<0, 1>>, <<0, 2>>, <<0, 3>>, <<1, 2>>, <<1, 3>>, <<2, 3>>, <<3, 0>>}

MaxEdges == 5

\* Graph::cost
Cost(a, b) == Distance(nodes[a], nodes[b])

\* Graph::neighbours: the other end of every edge that has node_index at
\* either end
Neighbours(node_index) ==
    {e[2] : e \in {x \in edges : x[1] = node_index}} \cup
    {e[1] : e \in {x \in edges : x[2] = node_index /\ x[1] # node_index}}

\* `-priority as i32`: the cast truncates towards zero
Priority(new_cost, next) == -((new_cost + Cost(end, next)) \div FP)

\* the neighbours of current whose cost the loop body improves
Improved(cur) ==
    {n \in Neighbours(cur) :
        \/ n \notin DOMAIN cost_so_far
        \/ cost_so_far[cur] + Cost(cur, n) < cost_so_far[n]}

\* VecDeque::push_back in the place of push_front: the walk from end to
\* start is returned as it was made
PushBack(deque, n) == Append(deque, n)

\* VecDeque::push_front
PushFront(deque, n) == <<n>> \o deque

(***************************************************************************)
(* Map: islands is a list of islands, each the flat list of the i32        *)
(* corners of its triangles (stride 3).                                    *)
(***************************************************************************)
VARIABLES islands, call, returned, ret

map_vars == <<islands, call, returned, ret>>

(***************************************************************************)
(* The World of the systems: world holds the component storages, the       *)
(* resources and the event channels, before is the World as it was when    *)
(* the run began, system is the system that is dispatched, ran tells that  *)
(* its run is over.                                                        *)
(***************************************************************************)
VARIABLES world, before, system, ran

ecs_vars == <<world, before, system, ran>>

\* no World is built
NoWorld == [built |-> FALSE]

\* a_star is a method of Graph: no Map is at hand while it runs
AStarInit ==
    /\ world = NoWorld /\ before = NoWorld /\ system = "none" /\ ran = FALSE
    /\ islands = <<>> /\ call = [fn |-> "none"] /\ returned = FALSE /\ ret = None
    /\ nodes = TestNodes
    /\ edges \in {es \in SUBSET EdgeCandidates : Cardinality(es) <= MaxEdges}
    /\ start \in DOMAIN nodes
    /\ end \in DOMAIN nodes
    /\ frontier = (start :> 0)
    /\ came_from = (start :> None)
    /\ cost_so_far = (start :> 0)
    /\ current = None
    /\ path = <<>>
    /\ previous = None
    /\ route = <<>>
    /\ pc = "loop"

\* while !frontier.is_empty() { current = frontier.pop(); if current == end
\* { break } ...: pop takes an entry of the greatest priority; which one of
\* several is up to the heap.
Pop ==
    /\ pc = "loop"
    /\ DOMAIN frontier # {}
    /\ \E n \in DOMAIN frontier :
          /\ \A m \in DOMAIN frontier : frontier[m] <= frontier[n]
          /\ current' = n
          /\ frontier' = [m \in DOMAIN frontier \ {n} |-> frontier[m]]
          /\ IF n = end
             THEN pc' = "walk" /\ previous' = Some(end)
             ELSE pc' = "expand" /\ UNCHANGED previous
    /\ UNCHANGED map_vars
    /\ UNCHANGED ecs_vars
    /\ UNCHANGED <<nodes, edges, start, end, came_from, cost_so_far, path, route>>

\* the frontier ran empty
Exhausted ==
    /\ pc = "loop"
    /\ DOMAIN frontier = {}
    /\ pc' = "walk"
    /\ previous' = Some(end)
    /\ UNCHANGED map_vars
    /\ UNCHANGED ecs_vars
    /\ UNCHANGED <<nodes, edges, start, end, frontier, came_from, cost_so_far,
                   current, path, route>>

\* for next in self.neighbours(current) { ... }
Expand ==
    /\ pc = "expand"
    /\ LET imp == Improved(current)
           new_cost(n) == cost_so_far[current] + Cost(current, n)
       IN  /\ cost_so_far' = [n \in DOMAIN cost_so_far \cup imp |->
                                 IF n \in imp THEN new_cost(n) ELSE cost_so_far[n]]
           /\ frontier' = [n \in DOMAIN frontier \cup imp |->
                                 IF n \in imp THEN Priority(new_cost(n), n)
                                 ELSE frontier[n]]
           /\ came_from' = [n \in DOMAIN came_from \cup imp |->
                                 IF n \in imp THEN Some(current) ELSE came_from[n]]
    /\ pc' = "loop"
    /\ UNCHANGED map_vars
    /\ UNCHANGED ecs_vars
    /\ UNCHANGED <<nodes, edges, start, end, current, path, previous, route>>

\* while previous.is_some() { nodes.push_front(previous);
\*                            previous = came_from[&previous] }
\* Indexing a HashMap with a key it does not hold panics.
Walk ==
    /\ pc = "walk"
    /\ previous # None
    /\ path' = PushFront(path, previous[1])
    /\ IF previous[1] \in DOMAIN came_from
       THEN previous' = came_from[previous[1]] /\ pc' = "walk"
       ELSE previous' = previous /\ pc' = "panic"
    /\ UNCHANGED map_vars
    /\ UNCHANGED ecs_vars
    /\ UNCHANGED <<nodes, edges, start, end, frontier, came_from, cost_so_far,
                   current, route>>

\* nodes.iter().map(|&n| self.nodes[n]).collect()
Return ==
    /\ pc = "walk"
    /\ previous = None
    /\ route' = [i \in 1..Len(path) |-> nodes[path[i]]]
    /\ pc' = "done"
    /\ UNCHANGED map_vars
    /\ UNCHANGED ecs_vars
    /\ UNCHANGED <<nodes, edges, start, end, frontier, came_from, cost_so_far,
                   current, path, previous>>

AStarNext == Pop \/ Exhausted \/ Expand \/ Walk \/ Return


vars == <<astar_vars, map_vars, ecs_vars>>

(***************************************************************************)
(* HashMap and HashSet iterate in the order of a hash keyed with random    *)
(* state, fresh for every table.  KeyedHash stands for that hash; a seed   *)
(* is one value of the random state.                                       *)
(***************************************************************************)
NumSeeds == 2

Seeds == 0..(NumSeeds - 1)

KeyedHash(seed, point) ==
    ((point[1] + 16) * (3 + 4 * seed) + (point[2] + 16) * (5 + 2 * seed)) % 7

\* a key that orders points by their hash, then by their coordinates
PointKey(seed, point) ==
    KeyedHash(seed, point) * 4096 + (point[1] + 32) * 64 + (point[2] + 32)

PointCode(point) == (point[1] + 32) * 64 + (point[2] + 32)

EdgeKey(seed, edge) ==
    ((KeyedHash(seed, edge[1]) * 3 + KeyedHash(seed, edge[2])) % 7) * 16777216
        + PointCode(edge[1]) * 4096 + PointCode(edge[2])

RECURSIVE PointsInOrder(_, _)
PointsInOrder(seed, set) ==
    IF set = {} THEN <<>>
    ELSE LET first == CHOOSE x \in set :
                         \A y \in set : PointKey(seed, x) <= PointKey(seed, y)
         IN  <<first>> \o PointsInOrder(seed, set \ {first})

RECURSIVE EdgesInOrder(_, _)
EdgesInOrder(seed, set) ==
    IF set = {} THEN <<>>
    ELSE LET first == CHOOSE x \in set :
                         \A y \in set : EdgeKey(seed, x) <= EdgeKey(seed, y)
         IN  <<first>> \o EdgesInOrder(seed, set \ {first})

\* the three edges of the triangles of an island, in order
RECURSIVE island_edges(_)
island_edges(island) ==
    IF Len(island) < 3 THEN <<>>
    ELSE <<<<island[1], island[2]>>, <<island[2], island[3]>>,
           <<island[3], island[1]>>>> \o island_edges(SubSeq(island, 4, Len(island)))

Count(counts, edge) == IF edge \in DOMAIN counts THEN counts[edge] ELSE 0

Put(counts, edge, n) ==
    [e \in DOMAIN counts \cup {edge} |-> IF e = edge THEN n ELSE counts[e]]

\* the loop body without its look at the reverse edge: (a,b) and (b,a) are
\* counted apart
InsertEdgeDirected(counts, island_edge) ==
    Put(counts, island_edge, Count(counts, island_edge) + 1)

\* the body of the loop of outer_edges: count island_edge under the
\* orientation the table already holds
InsertEdge(counts, island_edge) ==
    LET reverse_island_edge == <<island_edge[2], island_edge[1]>>
        edge_count == Count(counts, island_edge)
        reverse_edge_count == Count(counts, reverse_island_edge)
    IN  IF edge_count > 0 THEN Put(counts, island_edge, edge_count + 1)
        ELSE IF reverse_edge_count > 0
             THEN Put(counts, reverse_island_edge, reverse_edge_count + 1)
             ELSE Put(counts, island_edge, 1)

RECURSIVE CountEdges(_, _)
CountEdges(edge_seq, counts) ==
    IF edge_seq = <<>> THEN counts
    ELSE CountEdges(Tail(edge_seq), InsertEdge(counts, Head(edge_seq)))

\* the table island_outer_edges of one island
island_outer_edges(island) == CountEdges(island_edges(island), <<>>)

\* the edges of one island counted once, in the order of the table
IslandOuterEdges(seed, island) ==
    LET counts == island_outer_edges(island)
    IN  EdgesInOrder(seed, {e \in DOMAIN counts : counts[e] = 1})

RECURSIVE OuterEdgesFrom(_, _)
OuterEdgesFrom(seed, i) ==
    IF i > Len(islands) THEN <<>>
    ELSE IslandOuterEdges(seed + i, islands[i]) \o OuterEdgesFrom(seed, i + 1)

\* Map::outer_edges
outer_edges(seed) == OuterEdgesFrom(seed, 1)

\* Iterator::position: the 0-based index of the first element equal to x
RECURSIVE PositionFrom(_, _, _)
PositionFrom(seq, x, i) ==
    IF seq[i] = x THEN i - 1 ELSE PositionFrom(seq, x, i + 1)

position(seq, x) == PositionFrom(seq, x, 1)

\* corner_edges of corners_and_edges: the edges at corner_index, turned so
\* that corner_index comes first
RECURSIVE corner_edges(_, _)
corner_edges(graph_edges, corner_index) ==
    IF graph_edges = <<>> THEN <<>>
    ELSE LET e == Head(graph_edges)
             rest == corner_edges(Tail(graph_edges), corner_index)
         IN  IF e[1] = corner_index THEN <<e>> \o rest
             ELSE IF e[2] = corner_index THEN <<<<e[2], e[1]>>>> \o rest
             ELSE rest

\* adjusted_corner += (corners[edge.0] - corners[edge.1]).normalize()
Inflate(corners, adjusted_corner, edge) ==
    VecAdd(adjusted_corner,
           normalize(VecSub(corners[edge[1] + 1], corners[edge[2] + 1])))

RECURSIVE InflateAll(_, _, _)
InflateAll(corners, adjusted_corner, edge_seq) ==
    IF edge_seq = <<>> THEN adjusted_corner
    ELSE InflateAll(corners, Inflate(corners, adjusted_corner, Head(edge_seq)),
                    Tail(edge_seq))

\* Map::corners_and_edges: the corners in the order of the HashSet (1-based
\* sequences hold the 0-based vectors of the code), the boundary edges as
\* pairs of 0-based corner indices, and the inflated corners
corners_and_edges(edge_seed, corner_seed) ==
    LET outer == outer_edges(edge_seed)
        corner_set == {outer[i][1] : i \in 1..Len(outer)} \cup
                      {outer[i][2] : i \in 1..Len(outer)}
        corners_i32 == PointsInOrder(corner_seed, corner_set)
        graph_edges == [i \in 1..Len(outer) |->
                          <<position(corners_i32, outer[i][1]),
                            position(corners_i32, outer[i][2])>>]
        corners == [i \in 1..Len(corners_i32) |-> to_f32(corners_i32[i])]
        adjusted_corners ==
            [i \in 1..Len(corners) |->
                InflateAll(corners, corners[i], corner_edges(graph_edges, i - 1))]
    IN  [corners |-> corners, adjusted_corners |-> adjusted_corners,
         edges |-> graph_edges]

\* the triangles of an island as triples of i32 points
Triangles(island) ==
    {<<island[3 * k + 1], island[3 * k + 2], island[3 * k + 3]>> :
        k \in 0..((Len(island) \div 3) - 1)}

AllTriangles == UNION {Triangles(islands[i]) : i \in 1..Len(islands)}

\* the closure without its on_line tests, as in age_of_sail.rs
WithinTriangleOnly(point, triangle) ==
    LET a == to_f32(triangle[1])
        b == to_f32(triangle[2])
        c == to_f32(triangle[3])
    IN  /\ cross_signum(VecSub(b, a), VecSub(point, a))
              = cross_signum(VecSub(c, b), VecSub(point, b))
        /\ cross_signum(VecSub(b, a), VecSub(point, a))
              = cross_signum(VecSub(a, c), VecSub(point, c))

\* the closure of on_land for one triangle: within_triangle || on_line
on_land_triangle(point, triangle) ==
    LET a == to_f32(triangle[1])
        b == to_f32(triangle[2])
        c == to_f32(triangle[3])
        a_b == VecSub(b, a)
        b_c == VecSub(c, b)
        c_a == VecSub(a, c)
        a_p == VecSub(point, a)
        b_p == VecSub(point, b)
        c_p == VecSub(point, c)
        within_triangle ==
            /\ cross_signum(a_b, a_p) = cross_signum(b_c, b_p)
            /\ cross_signum(a_b, a_p) = cross_signum(c_a, c_p)
        on_a_line ==
            \/ on_line(point, a, a_b)
            \/ on_line(point, b, b_c)
            \/ on_line(point, c, c_a)
    IN  within_triangle \/ on_a_line

\* Map::on_land
on_land(point) == \E triangle \in AllTriangles : on_land_triangle(point, triangle)

\* f32::MAX as a squared distance
MaxDistance == -1

Closer(distance_squared, best) == best = MaxDistance \/ distance_squared < best

\* the point of the edge from e0 to e1 that is nearest to point: the
\* projection, with its parameter clamped to [0, 1]
ClampedProjection(point, e0, e1) ==
    LET dir == VecSub(e1, e0)
        distance_squared == MagnitudeSquared(dir)
        dot_product == Dot(VecSub(point, e0), dir)
    IN  IF dot_product > distance_squared THEN e1
        ELSE IF dot_product < 0 THEN e0
        ELSE <<e0[1] + RoundDiv(dot_product * dir[1], distance_squared),
               e0[2] + RoundDiv(dot_product * dir[2], distance_squared)>>

\* the nudge of closest_point_on_edge: one unit along the perpendicular of
\* the edge, or against it when that point is on land
Nudge(closest_point_for_edge, e0, e1) ==
    LET direction == normalize(VecSub(e1, e0))
        perpendicular_direction == <<-direction[2], direction[1]>>
        adjusted == VecAdd(closest_point_for_edge, perpendicular_direction)
    IN  IF on_land(adjusted)
        THEN VecSub(closest_point_for_edge, perpendicular_direction)
        ELSE adjusted

\* the body of the loop of closest_point_on_edge.  Distances are compared
\* by their squares.  An edge of length zero gives NaN and is never closer.
ClosestPointStep(point, closest_point, outer_edge) ==
    LET e0 == to_f32(outer_edge[1])
        e1 == to_f32(outer_edge[2])
    IN  IF e0 = e1 THEN closest_point
        ELSE LET closest_point_for_edge == ClampedProjection(point, e0, e1)
                 distance == DistanceSquared(closest_point_for_edge, point)
             IN  IF Closer(distance, closest_point[2])
                 THEN <<Nudge(closest_point_for_edge, e0, e1), distance>>
                 ELSE closest_point

RECURSIVE ClosestPointLoop(_, _, _)
ClosestPointLoop(point, closest_point, edge_seq) ==
    IF edge_seq = <<>> THEN closest_point
    ELSE ClosestPointLoop(point, ClosestPointStep(point, closest_point, Head(edge_seq)),
                          Tail(edge_seq))

\* Map::closest_point_on_edge
closest_point_on_edge(seed, point) ==
    ClosestPointLoop(point, <<<<0, 0>>, MaxDistance>>, outer_edges(seed))[1]

\* 0 <= n / d <= 1, for d # 0
InUnitInterval(n, d) ==
    IF d > 0 THEN 0 <= n /\ n <= d ELSE d <= n /\ n <= 0

\* possible_point_on_edge with strict taken as false, whatever it is
PointOnEdgeNotStrict(starting_point, line_direction, strict, e0, e1) ==
    LET edge_direction == VecSub(e1, e0)
        cross_of_directions == cross_2d(line_direction, edge_direction)
        to_edge == VecSub(e0, starting_point)
    IN  IF cross_of_directions = 0
        THEN IF cross_2d(to_edge, line_direction) = 0
                  /\ MagnitudeSquared(line_direction) # 0
             THEN LET d == MagnitudeSquared(line_direction)
                      t_0 == Dot(to_edge, line_direction)
                      t_1 == t_0 + Dot(edge_direction, line_direction)
                  IN  IF InUnitInterval(t_1, d)
                      THEN Some(<<e0[1] + RoundDiv(t_1 * edge_direction[1], d),
                                  e0[2] + RoundDiv(t_1 * edge_direction[2], d)>>)
                      ELSE None
             ELSE None
        ELSE LET t == cross_2d(to_edge, edge_direction)
                 u == cross_2d(to_edge, line_direction)
             IN  IF InUnitInterval(u, cross_of_directions)
                 THEN Some(<<e0[1] + Quot(u * edge_direction[1], cross_of_directions),
                             e0[2] + Quot(u * edge_direction[2], cross_of_directions)>>)
                 ELSE None

\* possible_point_on_edge of closest_point_of_line_on_edge for the boundary
\* edge from e0 to e1.  t_0, t_1, t and u are kept as numerators over
\* line_direction . line_direction or over cross_of_directions.  A
\* line_direction of zero gives NaN, which no comparison accepts.
PointOnEdge(starting_point, line_direction, strict, e0, e1) ==
    LET edge_direction == VecSub(e1, e0)
        cross_of_directions == cross_2d(line_direction, edge_direction)
        to_edge == VecSub(e0, starting_point)
    IN  IF cross_of_directions = 0
        THEN IF cross_2d(to_edge, line_direction) = 0
                  /\ MagnitudeSquared(line_direction) # 0
             THEN LET d == MagnitudeSquared(line_direction)
                      t_0 == Dot(to_edge, line_direction)
                      t_1 == t_0 + Dot(edge_direction, line_direction)
                  IN  IF InUnitInterval(t_1, d) /\ (strict => InUnitInterval(t_0, d))
                      THEN Some(<<e0[1] + RoundDiv(t_1 * edge_direction[1], d),
                                  e0[2] + RoundDiv(t_1 * edge_direction[2], d)>>)
                      ELSE None
             ELSE None
        ELSE LET t == cross_2d(to_edge, edge_direction)
                 u == cross_2d(to_edge, line_direction)
             IN  IF /\ InUnitInterval(u, cross_of_directions)
                    /\ (strict => InUnitInterval(t, cross_of_directions))
                 THEN Some(<<e0[1] + Quot(u * edge_direction[1], cross_of_directions),
                             e0[2] + Quot(u * edge_direction[2], cross_of_directions)>>)
                 ELSE None

\* the body of the loop of closest_point_of_line_on_edge
LinePointStep(starting_point, line_direction, strict, closest_point, outer_edge) ==
    LET possible_point_on_edge ==
            PointOnEdge(starting_point, line_direction, strict,
                        to_f32(outer_edge[1]), to_f32(outer_edge[2]))
    IN  IF possible_point_on_edge = None THEN closest_point
        ELSE LET distance == DistanceSquared(possible_point_on_edge[1], starting_point)
             IN  IF Closer(distance, closest_point[2])
                 THEN <<possible_point_on_edge, distance>>
                 ELSE closest_point

RECURSIVE LinePointLoop(_, _, _, _, _)
LinePointLoop(starting_point, line_direction, strict, closest_point, edge_seq) ==
    IF edge_seq = <<>> THEN closest_point
    ELSE LinePointLoop(starting_point, line_direction, strict,
                       LinePointStep(starting_point, line_direction, strict,
                                     closest_point, Head(edge_seq)),
                       Tail(edge_seq))

\* Map::closest_point_of_line_on_edge
closest_point_of_line_on_edge(seed, starting_point, line_direction, strict) ==
    LinePointLoop(starting_point, line_direction, strict, <<None, MaxDistance>>,
                  outer_edges(seed))[1]

\* closest_point_of_line_on_edge(point, node - point, true).is_none(), with
\* the outer edges it iterates over
NoPointOnEdges(outer, point, node) ==
    LinePointLoop(point, VecSub(node, point), TRUE, <<None, MaxDistance>>, outer)[1]
        = None

\* the filter without its test of the indices: an injected point gets an
\* edge to every node that no boundary edge hides, itself included
NewEdgeAnyIndex(outer, nodes_seq, corrected_point_index, node_index) ==
    NoPointOnEdges(outer, nodes_seq[corrected_point_index + 1],
                   nodes_seq[node_index + 1])

\* the filter of nodes_and_edges_connected: the injected point at
\* corrected_point_index gets an edge to the node at node_index
NewEdge(outer, nodes_seq, corrected_point_index, node_index) ==
    /\ NoPointOnEdges(outer, nodes_seq[corrected_point_index + 1],
                      nodes_seq[node_index + 1])
    /\ corrected_point_index # node_index

RECURSIVE NewEdgesOfPoint(_, _, _, _)
NewEdgesOfPoint(outer, nodes_seq, corrected_point_index, node_index) ==
    IF node_index >= Len(nodes_seq) THEN <<>>
    ELSE (IF NewEdge(outer, nodes_seq, corrected_point_index, node_index)
          THEN <<<<corrected_point_index, node_index>>>> ELSE <<>>)
         \o NewEdgesOfPoint(outer, nodes_seq, corrected_point_index, node_index + 1)

RECURSIVE NewEdges(_, _, _, _)
NewEdges(outer, nodes_seq, corners_count, point_index) ==
    IF corners_count + point_index >= Len(nodes_seq) THEN <<>>
    ELSE NewEdgesOfPoint(outer, nodes_seq, corners_count + point_index, 0)
         \o NewEdges(outer, nodes_seq, corners_count, point_index + 1)

\* Map::nodes_and_edges_connected: a Graph; its vectors are 1-based
\* sequences here, its edges pairs of 0-based indices.  Every call of
\* closest_point_of_line_on_edge builds the outer edges anew, in an order of
\* its own; whether it finds a point does not depend on the order, and the
\* outer edges of corners_and_edges stand for all of them.
nodes_and_edges_connected(edge_seed, corner_seed, points) ==
    LET ce == corners_and_edges(edge_seed, corner_seed)
        outer == outer_edges(edge_seed)
        nodes_seq == ce.adjusted_corners \o points
        corners_count == Len(ce.adjusted_corners)
    IN  [nodes |-> nodes_seq,
         edges |-> ce.edges \o NewEdges(outer, nodes_seq, corners_count, 0),
         corners_count |-> corners_count]

(***************************************************************************)
(* Map::new.  The polygons given to it have their corners on even whole    *)
(* coordinates and edges that span at most 4, so that every f32 of the     *)
(* trapezoid build is a whole number: an f32 is here the integer it is,    *)
(* and a point whose coordinates are NaN (a division by zero) is NaN.      *)
(* On whole numbers |cross| <= 0.02 is cross = 0 and a distance below      *)
(* 0.001 is equality.                                                      *)
(***************************************************************************)
COORDINATE_MAX == 10000

NaN == <<>>

\* Edge::order_by_y and EdgeF32::order_by_y: a comparison with NaN is false
order_by_y(e) ==
    IF e[1] # NaN /\ e[2] # NaN /\ e[1][2] > e[2][2] THEN e ELSE <<e[2], e[1]>>

\* -0.01 <= n / d <= 1.01, for d # 0 (epsilon = 0.01)
Forgiving(n, d) ==
    LET nn == IF d > 0 THEN n ELSE -n
        dd == Abs(d)
    IN  nn >= -(dd \div 100) /\ nn - dd <= dd \div 100

\* intersect_forgiving.  a_direction is horizontal in every call of Map::new,
\* where t * a_direction is computed without the product by its length.
intersect_forgiving(a_start, a_direction, b_start, b_direction) ==
    LET cross_of_directions == cross_2d(a_direction, b_direction)
        to_b == VecSub(b_start, a_start)
    IN  IF cross_of_directions = 0
        THEN IF cross_2d(to_b, a_direction) = 0
             THEN LET d == Dot(a_direction, a_direction)
                      t_0 == Dot(to_b, a_direction)
                      t_1 == t_0 + Dot(b_direction, a_direction)
                  IN  IF d = 0 THEN None   \* 0.0 / 0.0 is NaN
                      ELSE IF Forgiving(t_1, d) /\ Forgiving(t_0, d)
                      THEN IF a_direction[2] = 0
                           THEN Some(<<a_start[1] + to_b[1], a_start[2]>>)
                           ELSE Some(<<a_start[1] + Quot(t_0 * a_direction[1], d),
                                       a_start[2] + Quot(t_0 * a_direction[2], d)>>)
                      ELSE None
             ELSE None
        ELSE LET t == cross_2d(to_b, b_direction)
                 u == cross_2d(to_b, a_direction)
             IN  IF Forgiving(t, cross_of_directions) /\ Forgiving(u, cross_of_directions)
                 THEN IF a_direction[2] = 0
                      THEN Some(<<a_start[1] + Quot(t, b_direction[2]), a_start[2]>>)
                      ELSE Some(<<a_start[1] + Quot(t * a_direction[1], cross_of_directions),
                                  a_start[2] + Quot(t * a_direction[2], cross_of_directions)>>)
                 ELSE None

\* EdgeF32::intersects; with a NaN every comparison of intersect_forgiving
\* is false
EdgeF32_intersects(self, other) ==
    /\ self[1] # NaN /\ self[2] # NaN /\ other[1] # NaN /\ other[2] # NaN
    /\ intersect_forgiving(self[1], VecSub(self[2], self[1]),
                           other[1], VecSub(other[2], other[1])) # None

\* intersect
intersect(a_start, a_direction, b_start, b_direction) ==
    LET cross_of_directions == cross_2d(a_direction, b_direction)
        to_b == VecSub(b_start, a_start)
    IN  IF cross_of_directions = 0
        THEN /\ cross_2d(to_b, a_direction) = 0
             /\ LET d == Dot(a_direction, a_direction)
                    t_0 == Dot(to_b, a_direction)
                    t_1 == t_0 + Dot(b_direction, a_direction)
                IN  d # 0 /\ t_1 <= d /\ t_1 >= 0 /\ t_0 >= 0 /\ t_0 <= d
        ELSE /\ a_start # b_start
             /\ a_start # VecAdd(b_start, b_direction)
             /\ VecAdd(a_start, a_direction) # b_start
             /\ VecAdd(a_start, a_direction) # VecAdd(b_start, b_direction)
             /\ InUnitInterval(cross_2d(to_b, b_direction), cross_of_directions)
             /\ InUnitInterval(cross_2d(to_b, a_direction), cross_of_directions)

\* Edge::intersects
Edge_intersects(self, other) ==
    intersect(self[1], VecSub(self[2], self[1]), other[1], VecSub(other[2], other[1]))

\* on_line on whole numbers
on_line_whole(point, line_start, line_direction) ==
    IF line_direction = <<0, 0>> THEN point = line_start
    ELSE LET start_point_line == VecSub(point, line_start)
             dot_product == Dot(start_point_line, line_direction)
         IN  /\ cross_2d(start_point_line, line_direction) = 0
             /\ dot_product >= 0
             /\ dot_product <= MagnitudeSquared(line_direction)

\* QueryNode: <<"X", segment, left, right>>, <<"Y", y, above, below>> or
\* <<"Trapezoid", index>>
RECURSIVE QueryNode_next(_, _)
QueryNode_next(node, point) ==
    IF node[1] = "X"
    THEN LET e == node[2]
             dir == IF e[1][2] > e[2][2] THEN VecSub(e[1], e[2]) ELSE VecSub(e[2], e[1])
             cross == cross_2d(VecSub(point, <<0, 0>>), dir)
         IN  IF cross < 0 THEN QueryNode_next(node[4], point)
                          ELSE QueryNode_next(node[3], point)
    ELSE IF node[1] = "Y"
    THEN IF point[2] >= node[2] THEN QueryNode_next(node[3], point)
                                ELSE QueryNode_next(node[4], point)
    ELSE node

RECURSIVE insert_node(_, _, _)
insert_node(self, original_trapezoid_index, node) ==
    IF self[1] = "Trapezoid"
    THEN IF self[2] = original_trapezoid_index THEN node ELSE self
    ELSE <<self[1], self[2],
           insert_node(self[3], original_trapezoid_index, node),
           insert_node(self[4], original_trapezoid_index, node)>>

\* QueryStructure::query
query(root, point) == QueryNode_next(root, point)[2]

\* the point of an edge, given top first, at height y:
\* top + ((y - top.y) / diff.y) * diff
EdgePointAt(top_first, y) ==
    IF top_first[1] = NaN \/ top_first[2] = NaN THEN NaN
    ELSE LET top == top_first[1]
             diff == VecSub(top_first[2], top_first[1])
         IN  IF diff[2] = 0 THEN NaN
             ELSE <<top[1] + Quot((y - top[2]) * diff[1], diff[2]),
                    top[2] + Quot((y - top[2]) * diff[2], diff[2])>>

\* Trapezoid::split_vertically: <<above, below>>
split_vertically(self, y) ==
    LET left_top_first == order_by_y(self.left)
        right_top_first == order_by_y(self.right)
        left_mid == EdgePointAt(left_top_first, y)
        right_mid == EdgePointAt(right_top_first, y)
    IN  <<[left |-> <<left_top_first[1], left_mid>>,
           right |-> <<right_top_first[1], right_mid>>],
          [left |-> <<left_mid, left_top_first[2]>>,
           right |-> <<right_mid, right_top_first[2]>>]>>

\* Trapezoid::horizontal_edges
horizontal_edges(self) ==
    LET left_top_first == order_by_y(self.left)
        right_top_first == order_by_y(self.right)
    IN  <<<<left_top_first[1], right_top_first[1]>>,
          <<left_top_first[2], right_top_first[2]>>>>

\* Trapezoid::vertices
vertices(self) ==
    LET h == horizontal_edges(self)
    IN  <<h[1][1], h[1][2], h[2][2], h[2][1]>>

\* Trapezoid::split_horizontally: None or Some(<<left, right>>)
split_horizontally(self, segment) ==
    LET h == horizontal_edges(self)
    IN  IF \A i \in 1..2 : EdgeF32_intersects(h[i], segment)
        THEN LET segment_top_first == order_by_y(segment)
                 segment_top == segment_top_first[1]
                 segment_bottom == segment_top_first[2]
                 segment_diff_y == segment_top[2] - segment_bottom[2]
                 segment_dir == VecSub(segment_top, segment_bottom)
                 At(edge_y) ==
                     IF segment_diff_y = 0 THEN NaN
                     ELSE <<segment_bottom[1]
                              + Quot((edge_y - segment_bottom[2]) * segment_dir[1],
                                     segment_diff_y),
                            segment_bottom[2]
                              + Quot((edge_y - segment_bottom[2]) * segment_dir[2],
                                     segment_diff_y)>>
                 segment_truncated == <<At(h[1][1][2]), At(h[2][1][2])>>
             IN  Some(<<[left |-> self.left, right |-> segment_truncated],
                        [left |-> segment_truncated, right |-> self.right]>>)
        ELSE None

\* the keys of the HashMap trapezoids in the order of its iteration
IndexKey(seed, index) == ((index * (3 + 4 * seed) + seed) % 7) * 4096 + index

RECURSIVE IndicesInOrder(_, _)
IndicesInOrder(seed, set) ==
    IF set = {} THEN <<>>
    ELSE LET first == CHOOSE x \in set :
                         \A y \in set : IndexKey(seed, x) <= IndexKey(seed, y)
         IN  <<first>> \o IndicesInOrder(seed, set \ {first})

\* the segments of an island: Edge(vertex, island[(index + 1) % island.len()])
Segments(island) ==
    [index \in 1..Len(island) |-> <<island[index], island[(index % Len(island)) + 1]>>]

\* the first trapezoid, the query structure of one leaf, no segment used
FirstBuild ==
    [trapezoids |-> (0 :> [left |-> <<<<-COORDINATE_MAX, COORDINATE_MAX>>,
                                     <<-COORDINATE_MAX, -COORDINATE_MAX>>>>,
                          right |-> <<<<COORDINATE_MAX, COORDINATE_MAX>>,
                                      <<COORDINATE_MAX, -COORDINATE_MAX>>>>]),
     current_trapezoid_index |-> 1,
     root |-> <<"Trapezoid", 0>>,
     used_segments |-> <<>>]

\* trapezoids.insert(index, first); trapezoids.insert(index + 1, second);
\* trapezoids.remove(original); the leaf of original becomes node
Replace(build, original, first, second, node) ==
    LET new_index == build.current_trapezoid_index
    IN  [build EXCEPT
            !.trapezoids = [i \in (DOMAIN build.trapezoids \ {original})
                                     \cup {new_index, new_index + 1} |->
                               IF i = new_index THEN first
                               ELSE IF i = new_index + 1 THEN second
                               ELSE build.trapezoids[i]],
            !.current_trapezoid_index = new_index + 2,
            !.root = insert_node(build.root, original, node)]

\* if !a_already_in_segments { ... }: the trapezoid of the end point is
\* split at its height
InsertEndPoint(build, a) ==
    IF \E i \in 1..Len(build.used_segments) :
           build.used_segments[i][1] = a \/ build.used_segments[i][2] = a
    THEN build
    ELSE LET trapezoid_a_index == query(build.root, a)
             split == split_vertically(build.trapezoids[trapezoid_a_index], a[2])
             new_index == build.current_trapezoid_index
         IN  Replace(build, trapezoid_a_index, split[1], split[2],
                     <<"Y", a[2], <<"Trapezoid", new_index>>,
                                  <<"Trapezoid", new_index + 1>>>>)

\* for (&trapezoid_index, trapezoid) in trapezoids.clone().iter() { ... }
RECURSIVE SplitBySegment(_, _, _, _)
SplitBySegment(build, cloned, order, segment) ==
    IF order = <<>> THEN build
    ELSE LET trapezoid_index == Head(order)
             split == split_horizontally(cloned[trapezoid_index], segment)
             new_index == build.current_trapezoid_index
         IN  SplitBySegment(
                 IF split = None THEN build
                 ELSE Replace(build, trapezoid_index, split[1][1], split[1][2],
                              <<"X", segment, <<"Trapezoid", new_index>>,
                                              <<"Trapezoid", new_index + 1>>>>),
                 cloned, Tail(order), segment)

\* the body of for segment in segments.iter()
InsertSegment(seed, build, segment) ==
    LET ordered == order_by_y(segment)
        with_a == InsertEndPoint(build, ordered[1])
        with_b == InsertEndPoint(with_a, ordered[2])
        split == SplitBySegment(with_b, with_b.trapezoids,
                                IndicesInOrder(seed, DOMAIN with_b.trapezoids), segment)
    IN  [split EXCEPT !.used_segments = <<segment>> \o @]

\* the build after the first count segments
RECURSIVE BuildAfter(_, _, _)
BuildAfter(seed, segments, count) ==
    IF count = 0 THEN FirstBuild
    ELSE InsertSegment(seed, BuildAfter(seed, segments, count - 1), segments[count])

\* the closure of crossings: the ray from v to the right meets the segment
Crossing(v, segment) ==
    LET segment_start == segment[1]
        segment_end == segment[2]
        point == intersect_forgiving(v, <<2 * COORDINATE_MAX, 0>>, segment_start,
                                     VecSub(segment_end, segment_start))
    IN  IF point = None THEN FALSE
        ELSE IF point[1] = segment_start THEN segment_end[2] < segment_start[2]
        ELSE IF point[1] = segment_end THEN segment_start[2] < segment_end[2]
        ELSE TRUE

\* the filter of trapezoids_in_polygon
InPolygon(trapezoid, segments) ==
    \A k \in 1..4 :
        LET v == vertices(trapezoid)[k]
        IN  /\ v # NaN
            /\ \/ \E i \in 1..Len(segments) :
                      on_line_whole(v, segments[i][1], VecSub(segments[i][2], segments[i][1]))
               \/ Cardinality({i \in 1..Len(segments) : Crossing(v, segments[i])}) % 2 = 1

trapezoids_in_polygon(seed, build, segments) ==
    LET order == IndicesInOrder(seed, DOMAIN build.trapezoids)
        all == [i \in 1..Len(order) |-> build.trapezoids[order[i]]]
        Inside(trapezoid) == InPolygon(trapezoid, segments)
    IN  SelectSeq(all, Inside)

\* the closure of new_diagonals: None or Some(Edge)
Diagonal(trapezoid, island) ==
    LET vs == vertices(trapezoid)
        trapezoid_edges == [index \in 1..4 |-> <<vs[index], vs[(index % 4) + 1]>>]
        EdgesOf(v) == {trapezoid_edges[k] : k \in
                          {k \in 1..4 : on_line_whole(v, trapezoid_edges[k][1],
                               VecSub(trapezoid_edges[k][2], trapezoid_edges[k][1]))}}
        OnAnEdge(v) == EdgesOf(v) # {}
        polygon_vertices_on_trapezoid_edges == SelectSeq(island, OnAnEdge)
    IN  IF Len(polygon_vertices_on_trapezoid_edges) = 2
        THEN LET first_point == polygon_vertices_on_trapezoid_edges[1]
                 second_point == polygon_vertices_on_trapezoid_edges[2]
             IN  IF EdgesOf(first_point) \cap EdgesOf(second_point) = {}
                 THEN Some(<<first_point, second_point>>)
                 ELSE None
        ELSE None

RECURSIVE new_diagonals(_, _)
new_diagonals(trapezoids, island) ==
    IF trapezoids = <<>> THEN <<>>
    ELSE LET diagonal == Diagonal(Head(trapezoids), island)
         IN  diagonal \o new_diagonals(Tail(trapezoids), island)

\* polygon[(diagonal_start_index + step * i) % polygon.len()] for i = 0, 1, ...
\* up to and with diagonal_end; step is 1 forwards and len - 1 backwards
RECURSIVE WalkTo(_, _, _, _, _)
WalkTo(polygon, index, step, diagonal_end, count) ==
    LET new_vertex == polygon[index + 1]
    IN  IF new_vertex = diagonal_end \/ count = Len(polygon) THEN <<new_vertex>>
        ELSE <<new_vertex>> \o WalkTo(polygon, (index + step) % Len(polygon), step,
                                      diagonal_end, count + 1)

\* the closure of the flat_map over monotone_polygons: the polygons that
\* take the place of polygon
SplitPolygon(polygon, diagonal) ==
    LET diagonal_start == diagonal[1]
        diagonal_end == diagonal[2]
        Contains(v) == \E i \in 1..Len(polygon) : polygon[i] = v
    IN  IF Contains(diagonal_start) /\ Contains(diagonal_end)
        THEN LET diagonal_start_index ==
                     (CHOOSE i \in 1..Len(polygon) :
                         /\ polygon[i] = diagonal_start
                         /\ \A j \in 1..(i - 1) : polygon[j] # diagonal_start) - 1
             IN  <<WalkTo(polygon, diagonal_start_index, 1, diagonal_end, 1),
                   WalkTo(polygon, diagonal_start_index, Len(polygon) - 1,
                          diagonal_end, 1)>>
        ELSE <<polygon>>

RECURSIVE SplitAll(_, _)
SplitAll(polygons, diagonal) ==
    IF polygons = <<>> THEN <<>>
    ELSE SplitPolygon(Head(polygons), diagonal) \o SplitAll(Tail(polygons), diagonal)

\* for diagonal in new_diagonals { monotone_polygons = ... }
RECURSIVE monotone_polygons(_, _)
monotone_polygons(polygons, diagonals) ==
    IF diagonals = <<>> THEN polygons
    ELSE monotone_polygons(SplitAll(polygons, Head(diagonals)), Tail(diagonals))

\* the sum of (next.x - point.x) * (next.y + point.y) is not negative
clockwise(triangle) ==
    (triangle[2][1] - triangle[1][1]) * (triangle[2][2] + triangle[1][2])
      + (triangle[3][1] - triangle[2][1]) * (triangle[3][2] + triangle[2][2])
      + (triangle[1][1] - triangle[3][1]) * (triangle[1][2] + triangle[3][2]) >= 0

Anticlockwise(triangle) ==
    IF clockwise(triangle) THEN <<triangle[3], triangle[2], triangle[1]>> ELSE triangle

\* intersect(inner, (COORDINATE_MAX, 0), segment.0, segment.1 - segment.0) for
\* inner = from + 0.01 * (towards - from).normalize().  inner is within 0.01
\* of the whole point from, on the side of towards; the tests of intersect
\* on it are decided by from, and where from is on the line of the segment,
\* by the direction to towards.
inner_intersects(from, towards, segment) ==
    LET d == VecSub(towards, from)
        s == segment[1]
        sd == VecSub(segment[2], segment[1])
    IN  IF sd[2] = 0
        THEN \* parallel; colinear when inner.y = s.y; then t_0 and t_1 are
             \* (s.x - inner.x) / COORDINATE_MAX and (s.x + sd.x - inner.x) / COORDINATE_MAX
             /\ d[2] = 0 /\ s[2] = from[2]
             /\ \A x \in {s[1], s[1] + sd[1]} :
                    IF d[1] > 0 THEN x > from[1] ELSE x >= from[1]
        ELSE LET lo == IF sd[2] > 0 THEN s[2] ELSE s[2] + sd[2]
                 hi == IF sd[2] > 0 THEN s[2] + sd[2] ELSE s[2]
                 \* u = (inner.y - s.y) / sd.y is in [0, 1]
                 u_in == IF d[2] > 0 THEN lo <= from[2] /\ from[2] < hi
                         ELSE IF d[2] < 0 THEN lo < from[2] /\ from[2] <= hi
                         ELSE lo <= from[2] /\ from[2] <= hi
                 \* t = cross_2d(s - inner, sd) / (COORDINATE_MAX * sd.y) is
                 \* not negative
                 at_from == cross_2d(VecSub(s, from), sd)
                 numerator == IF at_from # 0 THEN at_from ELSE -cross_2d(d, sd)
                 t_in == IF sd[2] > 0 THEN numerator >= 0 ELSE numerator <= 0
             IN  u_in /\ t_in

\* inner_u_within_polygon, inner_w_within_polygon
inner_within_polygon(from, towards, polygon_segments) ==
    Cardinality({i \in 1..Len(polygon_segments) :
                    inner_intersects(from, towards, polygon_segments[i])}) % 2 = 1

\* the filter_map closure of triangle_and_edge: the triangle [u, point, w]
\* and the edge (u, w) are taken
Candidate(u, w, point, triangles, new_edges, polygon_segments) ==
    LET new_edge == <<u, w>>
        intersects_inner ==
            \E i \in 1..Len(new_edges) :
                LET other_edge == new_edges[i]
                IN  /\ (new_edge[1] # other_edge[1] /\ new_edge[2] # other_edge[2])
                    /\ (new_edge[1] # other_edge[2] /\ new_edge[2] # other_edge[1])
                    /\ Edge_intersects(new_edge, other_edge)
        intersects_outer ==
            \E i \in 1..Len(polygon_segments) :
                Edge_intersects(polygon_segments[i], new_edge)
        within_polygon == /\ inner_within_polygon(u, w, polygon_segments)
                          /\ inner_within_polygon(w, u, polygon_segments)
        duplicate_triangle ==
            \E i \in 1..Len(triangles) :
                {triangles[i][1], triangles[i][2], triangles[i][3]} = {u, point, w}
    IN  /\ w # u
        /\ ~intersects_outer
        /\ ~intersects_inner
        /\ within_polygon
        /\ ~duplicate_triangle

\* the neighbours of point: its two neighbours in the polygon, then the
\* other ends of the new edges at point
Neighbours_of(polygon, i, new_edges) ==
    LET point == polygon[i]
        prev_neighbour == polygon[((i + Len(polygon) - 2) % Len(polygon)) + 1]
        next_neighbour == polygon[(i % Len(polygon)) + 1]
        At(edge) == edge[1] = point \/ edge[2] = point
        at_point == SelectSeq(new_edges, At)
    IN  <<prev_neighbour, next_neighbour>>
          \o [k \in 1..Len(at_point) |->
                 IF at_point[k][1] = point THEN at_point[k][2] ELSE at_point[k][1]]

\* the body of the fold over the corners of a polygon: state is
\* <<triangles, new_edges>>
FoldStep(state, polygon, i, polygon_segments) ==
    LET triangles == state[1]
        new_edges == state[2]
        point == polygon[i]
        neighbours == Neighbours_of(polygon, i, new_edges)
        n == Len(neighbours)
        \* the pairs (u, w) in the order of the two nested iterations
        found == {k \in 0..(n * n - 1) :
                     Candidate(neighbours[(k \div n) + 1], neighbours[(k % n) + 1],
                               point, triangles, new_edges, polygon_segments)}
    IN  IF found = {} THEN state
        ELSE LET k == CHOOSE k \in found : \A other \in found : k <= other
                 u == neighbours[(k \div n) + 1]
                 w == neighbours[(k % n) + 1]
             IN  <<Append(triangles, Anticlockwise(<<u, point, w>>)),
                   Append(new_edges, <<u, w>>)>>

RECURSIVE Fold(_, _, _, _)
Fold(state, polygon, i, polygon_segments) ==
    IF i > Len(polygon) THEN state
    ELSE Fold(FoldStep(state, polygon, i, polygon_segments), polygon, i + 1,
              polygon_segments)

RECURSIVE Flatten(_)
Flatten(seqs) == IF seqs = <<>> THEN <<>> ELSE Head(seqs) \o Flatten(Tail(seqs))

\* the closure of the flat_map over the monotone polygons
TrianglesOf(polygon, polygon_segments) ==
    IF Len(polygon) = 3 THEN Anticlockwise(polygon)
    ELSE Flatten(Fold(<<<<>>, <<>>>>, polygon, 1, polygon_segments)[1])

\* the closure of the map over islands: the triangles of one island
Triangulated(seed, island) ==
    LET segments == Segments(island)
        build == BuildAfter(seed, segments, Len(segments))
        inside == trapezoids_in_polygon(seed, build, segments)
        diagonals == new_diagonals(inside, island)
        polygons == monotone_polygons(<<island>>, diagonals)
    IN  Flatten([k \in 1..Len(polygons) |-> TrianglesOf(polygons[k], segments)])

\* Map::new: the islands of the Map; the HashMap of island i is keyed with
\* seed + i
new(seed, islands_given) ==
    [i \in 1..Len(islands_given) |->
        Triangulated((seed + i - 1) % NumSeeds, islands_given[i])]

(***************************************************************************)
(* The maps and the arguments of the calls of the model.  World            *)
(* coordinates are those of the tests of map.rs at a scale of 1 : 25.      *)
(***************************************************************************)
\* (50,0) (100,25) (100,-25)
TriangleIsland == <<<<2, 0>>, <<4, 1>>, <<4, -1>>>>

\* the island of two triangles spanning (50,0) to (150,0)
TwoTriangleIsland ==
    <<<<2, 0>>, <<4, 1>>, <<4, -1>>, <<4, -1>>, <<4, 1>>, <<6, 0>>>>

\* (50,100) (100,125) (100,75)
SmallIsland == <<<<2, 4>>, <<4, 5>>, <<4, 3>>>>

\* an L: the square from (0,0) to (4,4) without its upper right quarter
LIsland ==
    <<<<0, 0>>, <<4, 0>>, <<4, 2>>,  <<0, 0>>, <<4, 2>>, <<2, 2>>,
      <<0, 0>>, <<2, 2>>, <<2, 4>>,  <<0, 0>>, <<2, 4>>, <<0, 4>>>>

\* a square of side 2 with its lower left corner at (x, 0); the second
\* triangle is wound clockwise
Square(x) ==
    <<<<x, 0>>, <<x + 2, 0>>, <<x + 2, 2>>,  <<x, 0>>, <<x, 2>>, <<x + 2, 2>>>>

\* a triangle without area
FlatIsland == <<<<1, 1>>, <<2, 1>>, <<4, 1>>>>

Maps ==
    <<  <<TriangleIsland>>,
        <<TwoTriangleIsland>>,
        <<SmallIsland, TwoTriangleIsland>>,
        <<LIsland>>,
        <<Square(0), Square(3)>>,
        <<Square(0), Square(4)>>,
        <<FlatIsland>>  >>

\* whole and half world coordinates from -1 to 6
GridMax == 12

HalfGrid == {(k * FP) \div 2 : k \in (-2)..GridMax}

\* the points of on_land: the half grid and its neighbours 1/FP away
FineCoordinates == HalfGrid \cup {x + 1 : x \in HalfGrid} \cup {x - 1 : x \in HalfGrid}

WholeGrid == {x \in HalfGrid : x % FP = 0}

WholePoints == WholeGrid \X WholeGrid

\* the points given to nodes_and_edges_connected
InjectedPoints ==
    {<<0, -FP>>, <<5 * FP, 0>>, <<4 * FP, (FP \div 2)>>, <<4 * FP, -(FP \div 2)>>,
     <<2 * FP, 0>>, <<3 * FP, 3 * FP>>}

MaxPoints == 2

PointLists == UNION {[1..n -> InjectedPoints] : n \in 0..MaxPoints}

\* the directions given to closest_point_of_line_on_edge
LineDirections ==
    {<<0, 0>>, <<FP, 0>>, <<-FP, 0>>, <<0, FP>>, <<0, -2 * FP>>, <<4 * FP, 0>>,
     <<2 * FP, FP>>, <<-2 * FP, FP>>, <<3 * FP, -3 * FP>>, <<FP, 2 * FP>>,
     <<6 * FP, FP>>, <<-FP, -FP>>, <<(FP \div 2), 0>>, <<0, 5 * FP>>}

\* the calls of the model: a function of Map and its arguments; seed is
\* the random state of the hash tables of the call
Calls ==
    [fn : {"on_land"}, point : FineCoordinates \X FineCoordinates]
    \cup [fn : {"closest_point_on_edge"}, point : HalfGrid \X HalfGrid, seed : Seeds]
    \cup [fn : {"closest_point_of_line_on_edge"}, starting_point : WholePoints,
          line_direction : LineDirections, strict : BOOLEAN, seed : Seeds]
    \cup [fn : {"nodes_and_edges_connected"}, points : PointLists,
          edge_seed : Seeds, corner_seed : Seeds]

\* the functions of Map are called on a built Map; no a_star is running
MapInit ==
    /\ world = NoWorld /\ before = NoWorld /\ system = "none" /\ ran = FALSE
    /\ nodes = <<>> /\ edges = {} /\ start = 0 /\ end = 0
    /\ frontier = <<>> /\ came_from = <<>> /\ cost_so_far = <<>>
    /\ current = None /\ path = <<>> /\ previous = None /\ route = <<>>
    /\ pc = "idle"
    /\ islands \in {Maps[i] : i \in 1..Len(Maps)}
    /\ call \in Calls
    /\ returned = FALSE
    /\ ret = None

CallOnLand ==
    /\ ~returned
    /\ call.fn = "on_land"
    /\ ret' = on_land(call.point)
    /\ returned' = TRUE
    /\ UNCHANGED <<islands, call>>
    /\ UNCHANGED astar_vars
    /\ UNCHANGED ecs_vars

CallClosestPointOnEdge ==
    /\ ~returned
    /\ call.fn = "closest_point_on_edge"
    /\ ret' = closest_point_on_edge(call.seed, call.point)
    /\ returned' = TRUE
    /\ UNCHANGED <<islands, call>>
    /\ UNCHANGED astar_vars
    /\ UNCHANGED ecs_vars

CallClosestPointOfLineOnEdge ==
    /\ ~returned
    /\ call.fn = "closest_point_of_line_on_edge"
    /\ ret' = closest_point_of_line_on_edge(
                  call.seed, call.starting_point, call.line_direction, call.strict)
    /\ returned' = TRUE
    /\ UNCHANGED <<islands, call>>
    /\ UNCHANGED astar_vars
    /\ UNCHANGED ecs_vars

CallNodesAndEdgesConnected ==
    /\ ~returned
    /\ call.fn = "nodes_and_edges_connected"
    /\ ret' = nodes_and_edges_connected(call.edge_seed, call.corner_seed, call.points)
    /\ returned' = TRUE
    /\ UNCHANGED <<islands, call>>
    /\ UNCHANGED astar_vars
    /\ UNCHANGED ecs_vars

MapNext ==
    \/ CallOnLand
    \/ CallClosestPointOnEdge
    \/ CallClosestPointOfLineOnEdge
    \/ CallNodesAndEdgesConnected

(***************************************************************************)
(* The polygons given to Map::new: the rings of 3 to MaxVertices corners   *)
(* on the lattice that are simple polygons.  A corner may lie straight     *)
(* between its two neighbours on a line along an axis or along x = y.      *)
(***************************************************************************)
Lattice == {0, 2, 4}

LatticePoints == Lattice \X Lattice

MaxVertices == 5

\* p is on the closed segment from a to b
RingPointOnEdge(p, a, b) ==
    /\ cross_2d(VecSub(b, a), VecSub(p, a)) = 0
    /\ Dot(VecSub(p, a), VecSub(p, b)) <= 0

\* the closed segments a-b and c-d have a point in common
RingEdgesMeet(a, b, c, d) ==
    LET o1 == cross_2d(VecSub(b, a), VecSub(c, a))
        o2 == cross_2d(VecSub(b, a), VecSub(d, a))
        o3 == cross_2d(VecSub(d, c), VecSub(a, c))
        o4 == cross_2d(VecSub(d, c), VecSub(b, c))
    IN  \/ /\ (o1 > 0 /\ o2 < 0) \/ (o1 < 0 /\ o2 > 0)
           /\ (o3 > 0 /\ o4 < 0) \/ (o3 < 0 /\ o4 > 0)
        \/ RingPointOnEdge(c, a, b) \/ RingPointOnEdge(d, a, b)
        \/ RingPointOnEdge(a, c, d) \/ RingPointOnEdge(b, c, d)

\* the ring is a simple polygon: its corners are distinct, two edges that
\* follow each other share their corner only, two others share nothing
SimpleRing(ring) ==
    LET n == Len(ring)
        Next(i) == (i % n) + 1
    IN  /\ \A i, j \in 1..n : i # j => ring[i] # ring[j]
        /\ \A i \in 1..n :
               ~RingPointOnEdge(ring[Next(Next(i))], ring[i], ring[Next(i)])
               /\ ~RingPointOnEdge(ring[i], ring[Next(i)], ring[Next(Next(i))])
        /\ \A i, j \in 1..n :
               (i < j /\ Next(i) # j /\ Next(j) # i)
                   => ~RingEdgesMeet(ring[i], ring[Next(i)], ring[j], ring[Next(j)])

\* no corner lies straight between its neighbours on a line that is neither
\* along an axis nor the diagonal x = y: there the f32 rounding of
\* u + 0.01 * (w - u).normalize() decides the tests of the candidate search,
\* everywhere else these tests are decided by whole numbers
WholeRing(ring) ==
    LET n == Len(ring)
        Next(i) == (i % n) + 1
    IN  \A i \in 1..n :
            LET d == VecSub(ring[Next(i)], ring[i])
                e == VecSub(ring[Next(Next(i))], ring[Next(i)])
            IN  (cross_2d(d, e) = 0) => (d[1] = 0 \/ d[2] = 0 \/ d[1] = d[2])

Rings == {ring \in UNION {[1..n -> LatticePoints] : n \in 3..MaxVertices} :
             SimpleRing(ring) /\ WholeRing(ring)}

\* no Map is built yet; Map::new is called on one island
NewInit ==
    /\ world = NoWorld /\ before = NoWorld /\ system = "none" /\ ran = FALSE
    /\ nodes = <<>> /\ edges = {} /\ start = 0 /\ end = 0
    /\ frontier = <<>> /\ came_from = <<>> /\ cost_so_far = <<>>
    /\ current = None /\ path = <<>> /\ previous = None /\ route = <<>>
    /\ pc = "idle"
    /\ islands = <<>>
    /\ call \in [fn : {"new"}, islands : {<<ring>> : ring \in Rings}, seed : Seeds]
    /\ returned = FALSE
    /\ ret = None

\* Map { islands: islands_triangulated }
CallNew ==
    /\ ~returned
    /\ call.fn = "new"
    /\ islands' = new(call.seed, call.islands)
    /\ ret' = Some(islands')
    /\ returned' = TRUE
    /\ UNCHANGED call
    /\ UNCHANGED astar_vars
    /\ UNCHANGED ecs_vars

NewNext == CallNew

(***************************************************************************)
(* The systems.  An Entity is its id; a join visits the entities in the    *)
(* order of their ids.  A storage is a function from the entities that     *)
(* have the component to its value, a storage of a component without       *)
(* fields is a set.  A HashMap<ItemType, u32> is a function from the       *)
(* items it holds to their amounts.  A Transform is its translation x, y   *)
(* in 1/FP units.  A notification is a tuple of the parts of its text.     *)
(* A panic ends the run and leaves the World as it is at that point.       *)
(***************************************************************************)
ItemType == {"Rum", "Sugar", "Whiskey"}

\* cargo.items.get(item).unwrap_or(&0)
Amount(items, item) == IF item \in DOMAIN items THEN items[item] ELSE 0

\* items.insert(item, amount), for every (item, amount) of goods
InsertGoods(items, goods) ==
    [item \in DOMAIN items \cup DOMAIN goods |->
        IF item \in DOMAIN goods THEN goods[item] ELSE items[item]]

\* *items.entry(item).or_insert(0) += amount, for every (item, amount) of
\* goods
AddGoods(items, goods) ==
    [item \in DOMAIN items \cup DOMAIN goods |->
        Amount(items, item) + Amount(goods, item)]

\* *items.get_mut(&item).unwrap() -= amount, for every (item, amount) of
\* goods; the items of goods are held
SubtractGoods(items, goods) ==
    [item \in DOMAIN items |-> items[item] - Amount(goods, item)]

\* a.distance(&b) < DISTANCE_THRESHOLD * scale, DISTANCE_THRESHOLD = 0.15,
\* scale in 1/FP units: 0.15 * 0.15 = 9 / 400
WithinScaledThreshold(a, b, scale) ==
    400 * DistanceSquared(a, b) < 9 * scale * scale

\* a.distance(&b) < DISTANCE_THRESHOLD
WithinDistanceThreshold(a, b) == WithinScaledThreshold(a, b, FP)

\* the entities of a join, in the order of the join
RECURSIVE Joined(_)
Joined(set) ==
    IF set = {} THEN <<>>
    ELSE LET first == CHOOSE e \in set : \A other \in set : e <= other
         IN  <<first>> \o Joined(set \ {first})

\* .next() of a join
FirstJoined(set) == IF set = {} THEN None ELSE Some(Joined(set)[1])

\* storage.remove(e)
Without(storage, e) == [x \in DOMAIN storage \ {e} |-> storage[x]]

\* the run has panicked
Panic(w) == [w EXCEPT !.panicked = TRUE]

(***************************************************************************)
(* FulfillContractSystem                                                   *)
(***************************************************************************)
\* ship_has_cargo
ship_has_cargo(items, goods_required) ==
    \A item \in DOMAIN goods_required :
        Amount(items, item) >= goods_required[item]

\* the first ship with a Cargo and a Transform that has the goods, wherever
\* it is
suitable_ship_anywhere(w, contract) ==
    FirstJoined({ship \in DOMAIN w.ships \cap DOMAIN w.cargos \cap DOMAIN w.locals :
        ship_has_cargo(w.cargos[ship].items, contract.goods_required)})

\* suitable_ship: the first ship with a Cargo and a Transform that is near
\* the port and has the goods
suitable_ship(w, contract) ==
    FirstJoined({ship \in DOMAIN w.ships \cap DOMAIN w.cargos \cap DOMAIN w.locals :
        /\ WithinDistanceThreshold(w.locals[ship], w.locals[contract.destination])
        /\ ship_has_cargo(w.cargos[ship].items, contract.goods_required)})

\* the body of the loop of FulfillContractSystem::run for the contract e
FulfillContract(w, e) ==
    LET contract == w.contracts[e]
    IN  IF contract.destination \notin DOMAIN w.locals THEN Panic(w)
        ELSE LET found == suitable_ship(w, contract)
             IN  IF found = None THEN w
                 ELSE LET ship == found[1]
                      IN  [w EXCEPT
                             !.cargos[ship].items =
                                 SubtractGoods(@, contract.goods_required),
                             !.player_status.money = @ + contract.payment,
                             !.update_channel =
                                 @ \o <<<<"PlayerStatus">>, <<"Target", e>>>>,
                             !.deleted = @ \cup {e},
                             !.notifications =
                                 IF contract.destination \in w.names
                                 THEN Append(@, <<"Completed contract", contract.payment,
                                                  contract.destination,
                                                  contract.goods_required>>)
                                 ELSE @,
                             !.panicked = contract.destination \notin w.names]

RECURSIVE FulfillContracts(_, _)
FulfillContracts(w, active) ==
    IF active = <<>> \/ w.panicked THEN w
    ELSE FulfillContracts(FulfillContract(w, Head(active)), Tail(active))

\* FulfillContractSystem::run: for each active contract (not owned by a
\* port)
FulfillContractSystem_run(w) ==
    FulfillContracts(w, Joined(DOMAIN w.contracts \ DOMAIN w.owned_bys))

(***************************************************************************)
(* AcceptContractSystem                                                    *)
(***************************************************************************)
\* the target of an event of any type
TargetOfAnyEvent(event) == Some(event.target)

\* target: the target of a ClickStop event
Target(event) ==
    IF event.event_type = "ClickStop" THEN Some(event.target) ELSE None

\* the body of the loop of AcceptContractSystem::run for one event
AcceptContract(w, event) ==
    IF Target(event) = None THEN w
    ELSE LET clicked == Target(event)[1]
         IN  IF clicked \notin DOMAIN w.owned_bys THEN w
             ELSE LET associated_entity == w.owned_bys[clicked].entity
                  IN  IF associated_entity \notin DOMAIN w.contracts THEN w
                      ELSE IF associated_entity \notin DOMAIN w.owned_bys THEN Panic(w)
                      ELSE LET contract == w.contracts[associated_entity]
                               port == w.owned_bys[associated_entity].entity
                           IN  IF port \notin DOMAIN w.cargos THEN Panic(w)
                               ELSE LET accepted ==
                                            [w EXCEPT
                                               !.owned_bys = Without(@, associated_entity),
                                               !.cargos[port].items =
                                                   AddGoods(@, contract.goods_required)]
                                    IN  IF port \notin w.names THEN Panic(accepted)
                                        ELSE [accepted EXCEPT
                                                !.notifications =
                                                    Append(@, <<"Contract accepted",
                                                                contract.goods_required, port,
                                                                associated_entity \in DOMAIN w.expirations>>),
                                                !.update_channel =
                                                    Append(@, <<"Target", associated_entity>>)]

RECURSIVE AcceptContracts(_, _)
AcceptContracts(w, events) ==
    IF events = <<>> \/ w.panicked THEN w
    ELSE AcceptContracts(AcceptContract(w, Head(events)), Tail(events))

\* AcceptContractSystem::run: the events of the channel that the reader has
\* not read are read
AcceptContractSystem_run(w) ==
    [AcceptContracts(w, w.ui_events) EXCEPT !.ui_events = <<>>]

(***************************************************************************)
(* DockingSystem                                                           *)
(***************************************************************************)
\* the body of the loop of DockingSystem::run for the port p
Dock(w, p) ==
    LET suitable == FirstJoined({ship \in DOMAIN w.ships \cap DOMAIN w.locals :
                        WithinDistanceThreshold(w.locals[ship], w.locals[p])})
    IN  IF suitable = None THEN w
        ELSE LET ship == suitable[1]
             IN  IF p \notin DOMAIN w.cargos \/ ship \notin DOMAIN w.cargos
                 THEN Panic(w)
                 ELSE LET port_cargo == w.cargos[p].items
                          loaded ==
                              [w EXCEPT
                                 !.cargos = [@ EXCEPT ![ship].items = AddGoods(@, port_cargo),
                                                      ![p].items = <<>>]]
                      IN  IF DOMAIN port_cargo = {} THEN loaded
                          ELSE IF p \notin w.names THEN Panic(loaded)
                          ELSE [loaded EXCEPT
                                  !.notifications =
                                      Append(@, <<"loaded onto ship", port_cargo, p>>)]

RECURSIVE DockAll(_, _)
DockAll(w, port_seq) ==
    IF port_seq = <<>> \/ w.panicked THEN w
    ELSE DockAll(Dock(w, Head(port_seq)), Tail(port_seq))

\* DockingSystem::run
DockingSystem_run(w) == DockAll(w, Joined(w.ports \cap DOMAIN w.locals))

(***************************************************************************)
(* MoveShipsSystem.  Time is delta_seconds and time_scale in 1/FP units,   *)
(* base_speed is a whole number, next_waypoint_index counts from 0.        *)
(***************************************************************************)
\* the translation after prepend_translation_x and prepend_translation_y:
\* the ship moves along direction by closeness_modifier * base_speed *
\* delta_seconds; the direction to the place where the ship is, is NaN
Moved(ship_location, next_waypoint, base_speed, time) ==
    IF next_waypoint = ship_location THEN NaN
    ELSE LET direction == normalize(VecSub(next_waypoint, ship_location))
             distance == Distance(ship_location, next_waypoint)
             closeness_modifier ==
                 IF WithinScaledThreshold(ship_location, next_waypoint, time.time_scale)
                 THEN Quot(distance * FP, time.time_scale)
                 ELSE FP
             by(d) == RoundDiv(closeness_modifier * base_speed * d * time.delta_seconds,
                                FP * FP)
         IN  <<ship_location[1] + by(direction[1]), ship_location[2] + by(direction[2])>>

\* the index after a waypoint that is never the last
AdvanceWithoutEnd(course, next_waypoint_index) == Some(next_waypoint_index + 1)

\* next_waypoint_index after the waypoint is reached: take() at the last
\* waypoint, replace(new_next_waypoint_index) at another
Advance(course, next_waypoint_index) ==
    IF next_waypoint_index + 1 = Len(course.waypoints) THEN None
    ELSE Some(next_waypoint_index + 1)

\* the body of the loop of MoveShipsSystem::run for one entity: its Course
\* and its Transform after it
MoveShip(ship, course, local, time) ==
    IF course.next_waypoint_index = None
    THEN [course |-> course, local |-> local, panicked |-> FALSE]
    ELSE LET next_waypoint_index == course.next_waypoint_index[1]
         IN  IF next_waypoint_index >= Len(course.waypoints)
             THEN [course |-> course, local |-> local, panicked |-> TRUE]
             ELSE LET reached == WithinDistanceThreshold(
                                     local, course.waypoints[next_waypoint_index + 1])
                      index == IF reached THEN Advance(course, next_waypoint_index)
                               ELSE Some(next_waypoint_index)
                  IN  IF index = None
                      THEN [course |-> [course EXCEPT !.next_waypoint_index = None],
                            local |-> local, panicked |-> FALSE]
                      ELSE IF index[1] >= Len(course.waypoints)
                      THEN [course |-> [course EXCEPT !.next_waypoint_index = index],
                            local |-> local, panicked |-> TRUE]
                      ELSE [course |-> [course EXCEPT !.next_waypoint_index = index],
                            local |-> Moved(local, course.waypoints[index[1] + 1],
                                            ship.base_speed, time),
                            panicked |-> FALSE]

RECURSIVE MoveShips(_, _)
MoveShips(w, entity_seq) ==
    IF entity_seq = <<>> \/ w.panicked THEN w
    ELSE LET e == Head(entity_seq)
             moved == MoveShip(w.ships[e], w.courses[e], w.locals[e], w.time)
         IN  MoveShips([w EXCEPT !.courses[e] = moved.course,
                                 !.locals[e] = moved.local,
                                 !.panicked = moved.panicked],
                       Tail(entity_seq))

\* MoveShipsSystem::run
MoveShipsSystem_run(w) ==
    MoveShips(w, Joined(DOMAIN w.ships \cap DOMAIN w.courses \cap DOMAIN w.locals))

(***************************************************************************)
(* AiSystem.  A StateQuery is <<"TargetNearby", d>> or                     *)
(* <<"TargetNotNearby", d>>; the transitions of an AiState are a function  *)
(* from its queries to state indices, states are counted from 0.           *)
(***************************************************************************)
\* some ship with a Transform, e itself included, is at a distance below
\* `distance as f32`
target_or_self_nearby(w, e, distance) ==
    \E other_e \in DOMAIN w.locals \cap DOMAIN w.ships :
        DistanceSquared(w.locals[other_e], w.locals[e])
            < distance * distance * FP * FP

\* target_nearby: some other ship with a Transform is at a distance below
\* `distance as f32`
target_nearby(w, e, distance) ==
    \E other_e \in (DOMAIN w.locals \cap DOMAIN w.ships) \ {e} :
        DistanceSquared(w.locals[other_e], w.locals[e])
            < distance * distance * FP * FP

\* the match on the query
Transition(w, e, state_query) ==
    IF state_query[1] = "TargetNearby" THEN target_nearby(w, e, state_query[2])
    ELSE ~target_nearby(w, e, state_query[2])

\* the place of a query in the iteration of the HashMap of a random state
QueryKey(seed, state_query) ==
    ((state_query[2] * (3 + 4 * seed) + (IF state_query[1] = "TargetNearby" THEN 1 ELSE 2) * (1 + seed))
        % 7) * 4096 + state_query[2] * 2 + (IF state_query[1] = "TargetNearby" THEN 0 ELSE 1)

\* current_state.transitions.iter()
RECURSIVE QueriesInOrder(_, _)
QueriesInOrder(seed, set) ==
    IF set = {} THEN <<>>
    ELSE LET first == CHOOSE x \in set :
                         \A y \in set : QueryKey(seed, x) <= QueryKey(seed, y)
         IN  <<first>> \o QueriesInOrder(seed, set \ {first})

\* the loop over the transitions: the state of the first state_query that holds
RECURSIVE NextState(_, _, _, _, _)
NextState(w, e, transitions, query_seq, next_state) ==
    IF query_seq = <<>> THEN next_state
    ELSE IF Transition(w, e, Head(query_seq)) THEN transitions[Head(query_seq)]
    ELSE NextState(w, e, transitions, Tail(query_seq), next_state)

\* the body of the loop of AiSystem::run for the entity e
AiTransition(w, e, seed) ==
    LET ai == w.ais[e]
        current_state == ai.states[ai.current_state_index + 1]
    IN  IF DOMAIN current_state.transitions # {} /\ e \notin DOMAIN w.locals
        THEN Panic(w)
        ELSE [w EXCEPT
                !.ais[e].previous_state_index = ai.current_state_index,
                !.ais[e].current_state_index =
                    NextState(w, e, current_state.transitions,
                              QueriesInOrder(seed, DOMAIN current_state.transitions),
                              ai.current_state_index)]

RECURSIVE AiTransitions(_, _, _)
AiTransitions(w, entity_seq, seed) ==
    IF entity_seq = <<>> \/ w.panicked THEN w
    ELSE AiTransitions(AiTransition(w, Head(entity_seq), seed), Tail(entity_seq),
                       (seed + 1) % NumSeeds)

\* AiSystem::run; the HashMap of the first Ai has the random state seed
AiSystem_run(w, seed) == AiTransitions(w, Joined(DOMAIN w.ais), seed)

(***************************************************************************)
(* PatrolSystem                                                            *)
(***************************************************************************)
\* the index of the first waypoint, whatever the distances
FirstWaypoint(waypoints, e_location) == Some(0)

\* waypoints.iter().enumerate().min_by(distance to e_location)
\* .map(|(index, _)| index): of several equally near, the first
NearestWaypoint(waypoints, e_location) ==
    IF waypoints = <<>> THEN None
    ELSE Some((CHOOSE i \in 1..Len(waypoints) :
                  /\ \A j \in 1..Len(waypoints) :
                        DistanceSquared(waypoints[i], e_location)
                          <= DistanceSquared(waypoints[j], e_location)
                  /\ \A j \in 1..(i - 1) :
                        DistanceSquared(waypoints[j], e_location)
                          > DistanceSquared(waypoints[i], e_location)) - 1)

\* the body of the loop of PatrolSystem::run for the entity e
Patrolling(w, e) ==
    LET ai == w.ais[e]
        patrol == w.patrols[e]
        e_location == w.locals[e]
    IN  IF ai.current_state_index >= Len(ai.states)
        THEN Panic(w)
        ELSE IF ai.states[ai.current_state_index + 1].action # "Patrol" THEN w
        ELSE IF ai.previous_state_index >= Len(ai.states) THEN Panic(w)
        ELSE LET previous_action_is_patrol ==
                     ai.states[ai.previous_state_index + 1].action = "Patrol"
                 new_next_waypoint_index ==
                     IF previous_action_is_patrol
                     THEN IF patrol.waypoints = <<>> THEN None
                          ELSE Some((patrol.next_waypoint_index + 1)
                                       % Len(patrol.waypoints))
                     ELSE NearestWaypoint(patrol.waypoints, e_location)
             IN  IF new_next_waypoint_index = None THEN Panic(w)
                 ELSE IF patrol.next_waypoint_index >= Len(patrol.waypoints)
                 THEN Panic(w)
                 ELSE IF \/ WithinDistanceThreshold(
                                e_location,
                                patrol.waypoints[patrol.next_waypoint_index + 1])
                         \/ e \notin DOMAIN w.courses
                         \/ ~previous_action_is_patrol
                 THEN [w EXCEPT
                          !.patrols[e].next_waypoint_index = new_next_waypoint_index[1],
                          !.courses =
                              (e :> [waypoints |->
                                        <<patrol.waypoints[new_next_waypoint_index[1] + 1]>>,
                                     next_waypoint_index |-> Some(0)]) @@ @]
                 ELSE w

RECURSIVE Patrols(_, _)
Patrols(w, entity_seq) ==
    IF entity_seq = <<>> \/ w.panicked THEN w
    ELSE Patrols(Patrolling(w, Head(entity_seq)), Tail(entity_seq))

PatrolSystem_run(w) ==
    Patrols(w, Joined(DOMAIN w.ais \cap DOMAIN w.patrols \cap DOMAIN w.locals))

(***************************************************************************)
(* ExpireContractSystem                                                    *)
(***************************************************************************)
\* the contract e is destroyed whatever its Expiration says
ExpireAnyContract(w, e) ==
    [w EXCEPT
        !.deleted = @ \cup {e},
        !.update_channel =
            IF e \in DOMAIN w.owned_bys THEN Append(@, <<"Target", e>>) ELSE @,
        !.notifications =
            IF e \in DOMAIN w.owned_bys THEN @
            ELSE Append(@, <<"A contract you have accepted has expired">>)]

\* the body of the loop over the contracts with an Expiration, and the
\* entities.delete(e) of the contracts_to_destroy
ExpireContract(w, e) ==
    IF w.expirations[e].expired
    THEN [w EXCEPT
            !.deleted = @ \cup {e},
            !.update_channel =
                IF e \in DOMAIN w.owned_bys THEN Append(@, <<"Target", e>>) ELSE @,
            !.notifications =
                IF e \in DOMAIN w.owned_bys THEN @
                ELSE Append(@, <<"A contract you have accepted has expired">>)]
    ELSE w

RECURSIVE ExpireContracts(_, _)
ExpireContracts(w, entity_seq) ==
    IF entity_seq = <<>> THEN w
    ELSE ExpireContracts(ExpireContract(w, Head(entity_seq)), Tail(entity_seq))

ExpireContractSystem_run(w) ==
    ExpireContracts(w, Joined(DOMAIN w.contracts \cap DOMAIN w.expirations))

(***************************************************************************)
(* ExpirationSystem.  A date is a number of days since 1 January 1680.     *)
(***************************************************************************)
\* Date::current_date: Utc.ymd(1680, 1, 1) and the whole days of
\* Duration::seconds(time_elapsed as i64)
current_date(date) == date.time_elapsed \div 86400

\* an Expiration that is expired on its date already
ExpireOnTheDate(expiration, date) ==
    IF current_date(date) >= expiration.expiration_date
    THEN [expiration EXCEPT !.expired = TRUE]
    ELSE expiration

\* the body of the loop of ExpirationSystem::run
Expire(expiration, date) ==
    IF current_date(date) > expiration.expiration_date
    THEN [expiration EXCEPT !.expired = TRUE]
    ELSE expiration

ExpirationSystem_run(w) ==
    [w EXCEPT !.expirations = [e \in DOMAIN @ |-> Expire(@[e], w.date)]]

(***************************************************************************)
(* CollisionSystem                                                         *)
(***************************************************************************)
\* BoundingBox::as_2d_points: top_left, top_right, bottom_right, bottom_left
as_2d_points(self, local) ==
    LET centre_x == local[1]
        centre_y == local[2]
        half == self.width \div 2
    IN  <<<<centre_x + self.origin[1] - half, centre_y + self.origin[2] + half>>,
          <<centre_x + self.origin[1] + half, centre_y + self.origin[2] + half>>,
          <<centre_x + self.origin[1] + half, centre_y + self.origin[2] - half>>,
          <<centre_x + self.origin[1] - half, centre_y + self.origin[2] - half>>>>

\* BoundingBox::as_boundaries
as_boundaries(self, local) ==
    LET centre_x == local[1]
        centre_y == local[2]
        half == self.width \div 2
    IN  [left |-> centre_x + self.origin[1] - half,
         right |-> centre_x + self.origin[1] + half,
         top |-> centre_y + self.origin[2] + half,
         bottom |-> centre_y + self.origin[2] - half]

point_in_rect(point, left, right, top, bottom) ==
    point[1] >= left /\ point[1] <= right /\ point[2] <= top /\ point[2] >= bottom

bounding_boxes_intersect(bounding_box, local, other_bounding_box, other_local) ==
    LET corners == as_2d_points(bounding_box, local)
        other == as_boundaries(other_bounding_box, other_local)
    IN  \E k \in 1..4 :
            point_in_rect(corners[k], other.left, other.right, other.top, other.bottom)

\* the two loops of CollisionSystem::run, the events in the order they are
\* written
CollisionSystem_run(w) ==
    LET joined == Joined(DOMAIN w.bounding_boxes \cap DOMAIN w.locals)
        n == Len(joined)
        pairs == [k \in 1..(n * n) |->
                     [entity |-> joined[((k - 1) \div n) + 1],
                      other_entity |-> joined[((k - 1) % n) + 1]]]
        Collides(pair) ==
            /\ pair.entity # pair.other_entity
            /\ bounding_boxes_intersect(
                   w.bounding_boxes[pair.entity], w.locals[pair.entity],
                   w.bounding_boxes[pair.other_entity], w.locals[pair.other_entity])
    IN  [w EXCEPT !.collision_channel = @ \o SelectSeq(pairs, Collides)]

(***************************************************************************)
(* The Worlds the systems are run on.  The entities are those of the       *)
(* game: the ship of the player 0 and the ship of the pirates 1, both with *)
(* a Cargo, the ports 2 and 3, named and with a Cargo, far from each       *)
(* other, the contracts 4 and 5, whose goods are at least 1 of an item,    *)
(* and the buttons 6 and 7 of the contracts that a port holds.             *)
(***************************************************************************)
\* the place x / 100, y / 100
Spot(x, y) == <<(x * FP) \div 100, (y * FP) \div 100>>

Times == {[delta_seconds |-> FP \div 16, time_scale |-> FP],
          [delta_seconds |-> 0, time_scale |-> 0]}

EmptyWorld ==
    [built |-> TRUE, ships |-> <<>>, ports |-> {}, locals |-> <<>>, cargos |-> <<>>,
     contracts |-> <<>>, owned_bys |-> <<>>, expirations |-> <<>>, names |-> {},
     courses |-> <<>>, ais |-> <<>>, patrols |-> <<>>, bounding_boxes |-> <<>>,
     date |-> [time_elapsed |-> 0], collision_channel |-> <<>>,
     time |-> [delta_seconds |-> FP \div 16, time_scale |-> FP],
     player_status |-> [money |-> 0], notifications |-> <<>>,
     ui_events |-> <<>>, update_channel |-> <<>>, deleted |-> {}, panicked |-> FALSE]

\* the two ports
PortWorld ==
    [EmptyWorld EXCEPT
        !.ports = {2, 3},
        !.names = {0, 1, 2, 3},
        !.locals = (2 :> Spot(200, 200) @@ 3 :> Spot(800, 200)),
        !.cargos = (2 :> [items |-> <<>>] @@ 3 :> [items |-> <<>>])]

\* at the port 2, within and beyond DISTANCE_THRESHOLD of it, at the port 3
ShipSpots == {Spot(200, 200), Spot(214, 200), Spot(216, 200), Spot(800, 200)}

\* the ships 0 and 1 at their places with their cargos
WithShips(w, place_0, place_1, items_0, items_1) ==
    [w EXCEPT
        !.ships = (0 :> [base_speed |-> 10] @@ 1 :> [base_speed |-> 9]),
        !.locals = (0 :> place_0 @@ 1 :> place_1) @@ @,
        !.cargos = (0 :> [items |-> items_0] @@ 1 :> [items |-> items_1]) @@ @]

\* the contract 4 for the port 2 and the contract 5 for the port destination
WithContracts(w, destination, owned) ==
    [w EXCEPT
        !.contracts =
            (4 :> [payment |-> 100, destination |-> 2,
                   goods_required |-> [Rum |-> 2]]
             @@ 5 :> [payment |-> 250, destination |-> destination,
                      goods_required |-> [Rum |-> 1, Sugar |-> 1]]),
        !.owned_bys = [c \in owned |-> [entity |-> IF c = 4 THEN 3 ELSE 5 - destination]]]

FulfillWorlds ==
    {WithContracts(WithShips(PortWorld, place_0, place_1, items_0, items_1),
                   destination, owned) :
        place_0 \in ShipSpots, place_1 \in ShipSpots,
        items_0 \in {<<>>, [Rum |-> 2], [Rum |-> 3, Sugar |-> 1], [Rum |-> 1, Sugar |-> 0]},
        items_1 \in {<<>>, [Rum |-> 3, Sugar |-> 1]},
        destination \in {2, 3}, owned \in SUBSET {4, 5}}

\* the events of a frame
MaxEvents == 2

UiEvents ==
    UNION {[1..n -> [event_type : {"ClickStop", "Click"}, target : {2, 6, 7, 8}]] :
              n \in 0..MaxEvents}

\* both contracts are held by a port and have their button; 8 is a button
\* of the port 2
AcceptWorlds ==
    {[WithContracts(PortWorld, 3, {4, 5}) EXCEPT
         !.cargos[held_by].items = items,
         !.owned_bys = (4 :> [entity |-> held_by] @@ 6 :> [entity |-> 4]
                        @@ 7 :> [entity |-> 5] @@ 8 :> [entity |-> 2]) @@ @,
         !.expirations = expirations,
         !.ui_events = events] :
        held_by \in {2, 3}, items \in {<<>>, [Rum |-> 1]},
        expirations \in {<<>>, (4 :> [expiration_date |-> 5, expired |-> FALSE])},
        events \in UiEvents}

\* the entity 1 is a ship or not
DockingWorlds ==
    {[WithShips(PortWorld, place_0, place_1, items_0, <<>>) EXCEPT
         !.ships = IF ship_1 THEN @ ELSE Without(@, 1),
         !.cargos = (2 :> [items |-> items_2] @@ 3 :> [items |-> items_3]) @@ @] :
        place_0 \in ShipSpots, place_1 \in ShipSpots, ship_1 \in BOOLEAN,
        items_0 \in {<<>>, [Rum |-> 1]},
        items_2 \in {<<>>, [Rum |-> 2], [Rum |-> 1, Whiskey |-> 4]},
        items_3 \in {<<>>, [Sugar |-> 5]}}

\* the courses of the ship 0, which is at 2, 2
MaxWaypoints == 2

WaypointSpots == {Spot(200, 200), Spot(214, 200), Spot(216, 200), Spot(500, 600)}

Courses ==
    UNION {[waypoints : [1..n -> WaypointSpots],
            next_waypoint_index : {None} \cup {Some(i) : i \in 0..(n - 1)}] :
              n \in 1..MaxWaypoints}

MoveShipsWorlds ==
    {[WithShips(PortWorld, Spot(200, 200), Spot(800, 200), <<>>, <<>>) EXCEPT
         !.ships = IF ship_1 THEN @ ELSE Without(@, 1),
         !.courses = (0 :> course
                      @@ 1 :> [waypoints |-> <<Spot(500, 600)>>,
                               next_waypoint_index |-> Some(0)]),
         !.time = time] :
        course \in Courses, ship_1 \in BOOLEAN, time \in Times}

\* the Ai of the pirates 1 at 2, 2; the entity 0 is a ship or not; the port
\* 2 is where the pirates are
StateQueries == {<<"TargetNearby", 2>>, <<"TargetNearby", 5>>,
                 <<"TargetNotNearby", 2>>, <<"TargetNotNearby", 5>>}

MaxQueries == 2

Transitions ==
    UNION {[queries -> 0..2] :
              queries \in {s \in SUBSET StateQueries : Cardinality(s) <= MaxQueries}}

AiWorlds ==
    {[WithShips(PortWorld, place_0, Spot(200, 200), <<>>, <<>>) EXCEPT
         !.ships = IF ship_0 THEN @ ELSE Without(@, 0),
         !.ais = (1 :> [states |-> <<[transitions |-> transitions, action |-> "Patrol"],
                                     [transitions |-> <<>>, action |-> "Chase"],
                                     [transitions |-> <<>>, action |-> "Patrol"]>>,
                        current_state_index |-> current_state_index,
                        previous_state_index |-> previous_state_index])] :
        place_0 \in {Spot(300, 200), Spot(200, 500), Spot(800, 200)},
        ship_0 \in BOOLEAN, transitions \in Transitions,
        current_state_index \in {0, 1}, previous_state_index \in {0, 2}}

\* the pirates 1 at 2, 2 with their Ai and their Patrol, with or without a
\* Course
PatrolRoutes ==
    UNION {[waypoints : [1..n -> WaypointSpots], next_waypoint_index : 0..(n - 1)] :
              n \in 1..MaxWaypoints}

PatrolWorlds ==
    {[WithShips(PortWorld, Spot(800, 200), Spot(200, 200), <<>>, <<>>) EXCEPT
         !.ais = (1 :> [states |-> <<[transitions |-> <<>>, action |-> "Patrol"],
                                     [transitions |-> <<>>, action |-> "Chase"]>>,
                        current_state_index |-> current_state_index,
                        previous_state_index |-> previous_state_index]),
         !.patrols = (1 :> patrol),
         !.courses = IF on_course
                     THEN (1 :> [waypoints |-> <<Spot(500, 600)>>,
                                 next_waypoint_index |-> Some(0)])
                     ELSE <<>>] :
        patrol \in PatrolRoutes, on_course \in BOOLEAN,
        current_state_index \in {0, 1}, previous_state_index \in {0, 1}}

\* the Expiration of a contract: none, or one of a day from 5 days ahead
Expirations(c) ==
    {<<>>} \cup {(c :> [expiration_date |-> expiration_date, expired |-> expired]) :
                    expiration_date \in {5, 6}, expired \in BOOLEAN}

\* each contract is held by a port or accepted, and has an Expiration or not
ExpireContractWorlds ==
    {[WithContracts(PortWorld, 3, owned) EXCEPT !.expirations = of_4 @@ of_5] :
        owned \in SUBSET {4, 5}, of_4 \in Expirations(4), of_5 \in Expirations(5)}

\* the seconds elapsed: the start, and the last second of a day and the
\* first of the next about the dates of expiration
TimesElapsed ==
    {0} \cup {days * 86400 - 1 : days \in 5..8} \cup {days * 86400 : days \in 5..8}

\* an Expiration is expired only after its date
ExpirationWorlds ==
    {w \in {[WithContracts(PortWorld, 3, {4, 5}) EXCEPT
                !.expirations = of_4 @@ of_5,
                !.date = [time_elapsed |-> time_elapsed]] :
               of_4 \in Expirations(4), of_5 \in Expirations(5),
               time_elapsed \in TimesElapsed} :
        \A e \in DOMAIN w.expirations :
            w.expirations[e].expired
                => current_date(w.date) > w.expirations[e].expiration_date}

\* the ships 0 and 1 with their BoundingBox of width 8, the port 2 at 2, 2
\* with its BoundingBox of width 10; the port 3 has none
CollisionSpots == {Spot(200, 200), Spot(250, 200), Spot(1000, 200), Spot(1100, 1100),
                   Spot(1101, 1100), Spot(2000, 200)}

CollisionWorlds ==
    {[WithShips(PortWorld, place_0, place_1, <<>>, <<>>) EXCEPT
         !.bounding_boxes =
             (0 :> [width |-> 8 * FP, origin |-> <<0, 0>>]
              @@ 2 :> [width |-> 10 * FP, origin |-> <<0, 0>>])
             @@ (IF boxed_1 THEN (1 :> [width |-> 8 * FP, origin |-> <<0, 0>>])
                 ELSE <<>>)] :
        place_0 \in CollisionSpots, place_1 \in CollisionSpots, boxed_1 \in BOOLEAN}

Systems == {"FulfillContractSystem", "AcceptContractSystem", "DockingSystem",
            "MoveShipsSystem", "AiSystem", "PatrolSystem", "ExpireContractSystem",
            "ExpirationSystem", "CollisionSystem"}

Worlds(s) ==
    CASE s = "FulfillContractSystem" -> FulfillWorlds
      [] s = "AcceptContractSystem" -> AcceptWorlds
      [] s = "DockingSystem" -> DockingWorlds
      [] s = "MoveShipsSystem" -> MoveShipsWorlds
      [] s = "AiSystem" -> AiWorlds
      [] s = "PatrolSystem" -> PatrolWorlds
      [] s = "ExpireContractSystem" -> ExpireContractWorlds
      [] s = "ExpirationSystem" -> ExpirationWorlds
      [] s = "CollisionSystem" -> CollisionWorlds

\* a World is built and one system is dispatched on it; no Map and no
\* a_star are at hand
SystemsInit ==
    /\ nodes = <<>> /\ edges = {} /\ start = 0 /\ end = 0
    /\ frontier = <<>> /\ came_from = <<>> /\ cost_so_far = <<>>
    /\ current = None /\ path = <<>> /\ previous = None /\ route = <<>>
    /\ pc = "idle"
    /\ islands = <<>> /\ call = [fn |-> "none"] /\ returned = FALSE /\ ret = None
    /\ system \in Systems
    /\ world \in Worlds(system)
    /\ before = world
    /\ ran = FALSE

RunFulfillContractSystem ==
    /\ ~ran
    /\ system = "FulfillContractSystem"
    /\ world' = FulfillContractSystem_run(world)
    /\ ran' = TRUE
    /\ UNCHANGED <<before, system>>
    /\ UNCHANGED astar_vars
    /\ UNCHANGED map_vars

RunAcceptContractSystem ==
    /\ ~ran
    /\ system = "AcceptContractSystem"
    /\ world' = AcceptContractSystem_run(world)
    /\ ran' = TRUE
    /\ UNCHANGED <<before, system>>
    /\ UNCHANGED astar_vars
    /\ UNCHANGED map_vars

RunDockingSystem ==
    /\ ~ran
    /\ system = "DockingSystem"
    /\ world' = DockingSystem_run(world)
    /\ ran' = TRUE
    /\ UNCHANGED <<before, system>>
    /\ UNCHANGED astar_vars
    /\ UNCHANGED map_vars

RunMoveShipsSystem ==
    /\ ~ran
    /\ system = "MoveShipsSystem"
    /\ world' = MoveShipsSystem_run(world)
    /\ ran' = TRUE
    /\ UNCHANGED <<before, system>>
    /\ UNCHANGED astar_vars
    /\ UNCHANGED map_vars

\* the random state of the HashMaps is any
RunAiSystem ==
    /\ ~ran
    /\ system = "AiSystem"
    /\ \E seed \in Seeds : world' = AiSystem_run(world, seed)
    /\ ran' = TRUE
    /\ UNCHANGED <<before, system>>
    /\ UNCHANGED astar_vars
    /\ UNCHANGED map_vars

RunPatrolSystem ==
    /\ ~ran
    /\ system = "PatrolSystem"
    /\ world' = PatrolSystem_run(world)
    /\ ran' = TRUE
    /\ UNCHANGED <<before, system>>
    /\ UNCHANGED astar_vars
    /\ UNCHANGED map_vars

RunExpireContractSystem ==
    /\ ~ran
    /\ system = "ExpireContractSystem"
    /\ world' = ExpireContractSystem_run(world)
    /\ ran' = TRUE
    /\ UNCHANGED <<before, system>>
    /\ UNCHANGED astar_vars
    /\ UNCHANGED map_vars

RunExpirationSystem ==
    /\ ~ran
    /\ system = "ExpirationSystem"
    /\ world' = ExpirationSystem_run(world)
    /\ ran' = TRUE
    /\ UNCHANGED <<before, system>>
    /\ UNCHANGED astar_vars
    /\ UNCHANGED map_vars

RunCollisionSystem ==
    /\ ~ran
    /\ system = "CollisionSystem"
    /\ world' = CollisionSystem_run(world)
    /\ ran' = TRUE
    /\ UNCHANGED <<before, system>>
    /\ UNCHANGED astar_vars
    /\ UNCHANGED map_vars

SystemsNext ==
    \/ RunFulfillContractSystem
    \/ RunAcceptContractSystem
    \/ RunDockingSystem
    \/ RunMoveShipsSystem
    \/ RunAiSystem
    \/ RunPatrolSystem
    \/ RunExpireContractSystem
    \/ RunExpirationSystem
    \/ RunCollisionSystem

\* the calls of Map, on every map of Maps
SpecMap == MapInit /\ [][MapNext]_vars

\* a_star on every graph of at most MaxEdges edges over TestNodes
SpecAStar == AStarInit /\ [][AStarNext]_vars

\* Map::new on every ring of Rings
SpecNew == NewInit /\ [][NewNext]_vars

\* one run of one system on every World of Worlds
SpecSystems == SystemsInit /\ [][SystemsNext]_vars

(***************************************************************************)
(* Properties of a_star                                                    *)
(***************************************************************************)
RECURSIVE ReachFrom(_)
ReachFrom(seen) ==
    LET more == seen \cup UNION {Neighbours(n) : n \in seen}
    IN  IF more = seen THEN seen ELSE ReachFrom(more)

\* end can be reached from start along edges of the edge list
EndReachable == end \in ReachFrom({start})

\* total Euclidean length of a sequence of node indices
RECURSIVE PathLength(_)
PathLength(p) ==
    IF Len(p) < 2 THEN 0 ELSE Cost(p[1], p[2]) + PathLength(Tail(p))

\* the sequences of distinct nodes that go from a to end along edges
RECURSIVE SimplePaths(_, _)
SimplePaths(a, visited) ==
    IF a = end THEN {<<a>>}
    ELSE UNION {{<<a>> \o rest : rest \in SimplePaths(n, visited \cup {n})} :
                   n \in Neighbours(a) \ visited}

ShortestLength ==
    LET lengths == {PathLength(p) : p \in SimplePaths(start, {start})}
    IN  CHOOSE l \in lengths : \A k \in lengths : l <= k

\* C1: when end is not reachable from start, a_star does not panic on a
\* missing back-pointer and returns the empty route.
C1_UnreachableGivesEmptyRoute ==
    ~EndReachable => /\ pc # "panic"
                     /\ (pc = "done" => route = <<>>)

\* C2: when end is reachable, the returned route has the least total
\* Euclidean length of all start-to-end paths, whichever of several entries
\* of equal priority the frontier pops.
C2_RouteIsShortest ==
    (pc = "done" /\ EndReachable) => PathLength(path) = ShortestLength

\* C3: when end is reachable, the returned route begins with nodes[start],
\* ends with nodes[end], and every two consecutive points are the two ends
\* of an edge of the edge list, in either orientation.
C3_RouteFollowsEdges ==
    (pc = "done" /\ EndReachable) =>
        /\ Len(route) >= 1
        /\ route[1] = nodes[start]
        /\ route[Len(route)] = nodes[end]
        /\ \A i \in 1..(Len(route) - 1) :
              \E e \in edges :
                 \/ nodes[e[1]] = route[i] /\ nodes[e[2]] = route[i + 1]
                 \/ nodes[e[2]] = route[i] /\ nodes[e[1]] = route[i + 1]

\* a returned route of two hops, the second along an edge stored as
\* (to, from)
C3_Witness ==
    /\ pc = "done"
    /\ EndReachable
    /\ Len(route) = 3
    /\ <<path[3], path[2]>> \in edges

(***************************************************************************)
(* Properties of Map.  The geometry they speak of is stated with           *)
(* orientation tests, not with the parameters the code computes.           *)
(***************************************************************************)
Returned(fn) == returned /\ call.fn = fn

\* the boundary edges of the map as pairs of f32 points, whatever the order
BoundaryEdges ==
    LET outer == outer_edges(0)
    IN  {<<to_f32(outer[i][1]), to_f32(outer[i][2])>> : i \in 1..Len(outer)}

\* twice the signed area of the triangle a, b, c
Orientation(a, b, c) == cross_2d(VecSub(b, a), VecSub(c, a))

Sign(x) == IF x > 0 THEN 1 ELSE IF x < 0 THEN -1 ELSE 0

Min(a, b) == IF a < b THEN a ELSE b

Max(a, b) == IF a > b THEN a ELSE b

\* every triangle of the map has an area
NoFlatTriangle ==
    \A triangle \in AllTriangles :
        Orientation(triangle[1], triangle[2], triangle[3]) # 0

\* point lies in the closed triangle
InClosedTriangle(point, triangle) ==
    LET a == to_f32(triangle[1])
        b == to_f32(triangle[2])
        c == to_f32(triangle[3])
        signs == {Sign(Orientation(a, b, point)), Sign(Orientation(b, c, point)),
                  Sign(Orientation(c, a, point))}
    IN  IF Orientation(a, b, c) # 0 THEN ~({1, -1} \subseteq signs)
        ELSE /\ signs = {0}
             /\ Min(a[1], Min(b[1], c[1])) <= point[1]
             /\ point[1] <= Max(a[1], Max(b[1], c[1]))
             /\ Min(a[2], Min(b[2], c[2])) <= point[2]
             /\ point[2] <= Max(a[2], Max(b[2], c[2]))

\* point projects onto the edge from a to b and is so near its line that
\* the cross product is at most 0.02
NearEdge(point, a, b) ==
    /\ a # b
    /\ Abs(Orientation(a, b, point)) <= OnLineTolerance
    /\ Dot(VecSub(point, a), VecSub(b, a)) >= 0
    /\ Dot(VecSub(point, b), VecSub(a, b)) >= 0

NearTriangleEdge(point, triangle) ==
    LET a == to_f32(triangle[1])
        b == to_f32(triangle[2])
        c == to_f32(triangle[3])
    IN  NearEdge(point, a, b) \/ NearEdge(point, b, c) \/ NearEdge(point, c, a)

\* the t-interval (numerators over |n - p|^2) that the edge from e0 to e1
\* covers on the line from p to n, when it lies on that line
Collinear(p, n, e0, e1) ==
    Orientation(p, n, e0) = 0 /\ Orientation(p, n, e1) = 0

LowOnLine(p, n, e0, e1) ==
    Min(Dot(VecSub(e0, p), VecSub(n, p)), Dot(VecSub(e1, p), VecSub(n, p)))

HighOnLine(p, n, e0, e1) ==
    Max(Dot(VecSub(e0, p), VecSub(n, p)), Dot(VecSub(e1, p), VecSub(n, p)))

\* the boundary edge from e0 to e1 has a point strictly between p and n
MeetsInterior(p, n, e0, e1) ==
    /\ p # n
    /\ IF Collinear(p, n, e0, e1)
       THEN /\ HighOnLine(p, n, e0, e1) > 0
            /\ LowOnLine(p, n, e0, e1) < DistanceSquared(p, n)
       ELSE /\ Sign(Orientation(p, n, e0)) * Sign(Orientation(p, n, e1)) <= 0
            /\ Sign(Orientation(e0, e1, p)) * Sign(Orientation(e0, e1, n)) < 0

\* point lies on the segment from a to b
OnSegment(point, a, b) ==
    /\ Orientation(a, b, point) = 0
    /\ Dot(VecSub(point, a), VecSub(b, a)) >= 0
    /\ Dot(VecSub(point, b), VecSub(a, b)) >= 0

\* the boundary edge from e0 to e1 has a point in common with the segment
\* from p to n, the ends p and n included
MeetsSegment(p, n, e0, e1) ==
    IF p = n THEN OnSegment(p, e0, e1)
    ELSE IF Collinear(p, n, e0, e1)
    THEN /\ HighOnLine(p, n, e0, e1) >= 0
         /\ LowOnLine(p, n, e0, e1) <= DistanceSquared(p, n)
    ELSE /\ Sign(Orientation(p, n, e0)) * Sign(Orientation(p, n, e1)) <= 0
         /\ Sign(Orientation(e0, e1, p)) * Sign(Orientation(e0, e1, n)) <= 0

\* the 0-based indices of the injected points and of all nodes of ret
InjectedIndices == ret.corners_count..(Len(ret.nodes) - 1)

NodeIndices == 0..(Len(ret.nodes) - 1)

GraphEdgeSet == {ret.edges[i] : i \in 1..Len(ret.edges)}

\* the edges that nodes_and_edges_connected added to those of the corners
AddedEdges == {ret.edges[i] : i \in (Len(outer_edges(0)) + 1)..Len(ret.edges)}

\* C4: no edge added between an injected point and another node has an
\* interior that crosses or runs along a boundary edge.
C4_AddedEdgesClearOfBoundary ==
    (Returned("nodes_and_edges_connected") /\ NoFlatTriangle) =>
        LET boundary == BoundaryEdges
        IN  \A e \in AddedEdges : \A b \in boundary :
                ~MeetsInterior(ret.nodes[e[1] + 1], ret.nodes[e[2] + 1], b[1], b[2])

\* C5: an injected point p and another node n get an edge whenever no
\* boundary edge meets the segment from p to n strictly between p and n.
C5_EdgeWhenInteriorClear ==
    (Returned("nodes_and_edges_connected") /\ NoFlatTriangle) =>
        LET boundary == BoundaryEdges
            graph_edges == GraphEdgeSet
        IN  \A p \in InjectedIndices : \A n \in NodeIndices \ {p} :
                (\A b \in boundary :
                     ~MeetsInterior(ret.nodes[p + 1], ret.nodes[n + 1], b[1], b[2]))
                => <<p, n>> \in graph_edges

\* C5 as amended: an injected point p and another node n get an edge
\* whenever no boundary edge has a point in common with the segment from p
\* to n, its two ends included.
C5_EdgeWhenSegmentClear ==
    Returned("nodes_and_edges_connected") =>
        LET boundary == BoundaryEdges
            graph_edges == GraphEdgeSet
        IN  \A p \in InjectedIndices : \A n \in NodeIndices \ {p} :
                (\A b \in boundary :
                     ~MeetsSegment(ret.nodes[p + 1], ret.nodes[n + 1], b[1], b[2]))
                => <<p, n>> \in graph_edges

\* an injected point with a clear segment to a corner and to the other
\* injected point, and a blocked one to another corner
C5_Witness ==
    /\ Returned("nodes_and_edges_connected")
    /\ Len(call.points) = 2
    /\ call.points[1] # call.points[2]
    /\ NoFlatTriangle
    /\ \E p \in InjectedIndices :
          /\ \E n \in InjectedIndices \ {p} : <<p, n>> \in GraphEdgeSet
          /\ \E n \in 0..(ret.corners_count - 1) : <<p, n>> \in GraphEdgeSet
          /\ \E n \in 0..(ret.corners_count - 1) :
                \E b \in BoundaryEdges :
                    MeetsSegment(ret.nodes[p + 1], ret.nodes[n + 1], b[1], b[2])

\* how often the undirected edge occurs among the edges of the triangles
Occurrences(island, edge) ==
    LET all == island_edges(island)
    IN  Cardinality({k \in 1..Len(all) :
                        all[k] = edge \/ all[k] = <<edge[2], edge[1]>>})

IslandOuterEdgeSet(seed, island) ==
    LET outer == IslandOuterEdges(seed, island)
    IN  {outer[i] : i \in 1..Len(outer)}

\* C6: an undirected edge of an island is a boundary edge exactly when it
\* occurs once among the edges of the triangles of the island, (a,b) and
\* (b,a) being one edge; for the island of two triangles,
\* nodes_and_edges_connected([]) has 4 nodes and 4 edges.
C6_OuterEdgesOccurOnce ==
    Returned("nodes_and_edges_connected") =>
        /\ \A i \in 1..Len(islands) :
              LET outer == IslandOuterEdgeSet(call.edge_seed + i, islands[i])
                  all == island_edges(islands[i])
              IN  /\ \A k \in 1..Len(all) :
                        (Occurrences(islands[i], all[k]) = 1) <=>
                        (all[k] \in outer \/ <<all[k][2], all[k][1]>> \in outer)
                  /\ \A e \in outer :
                        Occurrences(islands[i], e) = 1 /\ <<e[2], e[1]>> \notin outer
        /\ (call.points = <<>> /\ islands = <<TwoTriangleIsland>>)
              => (Len(ret.nodes) = 4 /\ Len(ret.edges) = 4)

\* nodes_and_edges_connected([]) has returned for the island of two
\* triangles, whose shared edge is not among the edges of the graph
C6_Witness ==
    /\ Returned("nodes_and_edges_connected")
    /\ call.points = <<>>
    /\ islands = <<TwoTriangleIsland>>
    /\ Len(ret.edges) = 4
    /\ Occurrences(islands[1], <<<<4, 1>>, <<4, -1>>>>) = 2

C8_ClosestPointNotOnLand ==
    (Returned("closest_point_on_edge") /\ NoFlatTriangle) => ~on_land(ret)

\* The distance from starting_point of the nearest point that the line
\* through starting_point along line_direction has in common with the
\* boundary edge from e0 to e1, as Some(distance), the point counting only
\* on the segment to starting_point + line_direction when strict; None when
\* there is no such point.
NearestOnEdge(starting_point, line_direction, strict, e0, e1) ==
    LET n == VecAdd(starting_point, line_direction)
        d == MagnitudeSquared(line_direction)
        length == ISqrt(d)
        lo == LowOnLine(starting_point, n, e0, e1)
        hi == HighOnLine(starting_point, n, e0, e1)
        c == Orientation(e0, e1, n) - Orientation(e0, e1, starting_point)
        t == -Orientation(e0, e1, starting_point)
    IN  IF Collinear(starting_point, n, e0, e1)
        THEN IF strict
             THEN IF Max(lo, 0) <= Min(hi, d)
                  THEN Some((Max(lo, 0) * length) \div d) ELSE None
             ELSE IF lo <= 0 /\ 0 <= hi THEN Some(0)
                  ELSE Some((Min(Abs(lo), Abs(hi)) * length) \div d)
        ELSE IF /\ c # 0
                /\ Sign(Orientation(starting_point, n, e0))
                      * Sign(Orientation(starting_point, n, e1)) <= 0
                /\ (strict => InUnitInterval(t, c))
             THEN Some((Abs(t) * length) \div Abs(c))
             ELSE None

\* the rounding that the distances of this model allow for
Slack == FP \div 4

\* C9: closest_point_of_line_on_edge returns the point nearest to start
\* among the points that the line has in common with the boundary edges
\* (on the segment from start to start + direction when strict), and None
\* when there is none.
C9_NearestValidIntersection ==
    (/\ Returned("closest_point_of_line_on_edge")
     /\ NoFlatTriangle
     /\ call.line_direction # <<0, 0>>) =>
        LET found == {NearestOnEdge(call.starting_point, call.line_direction,
                                    call.strict, b[1], b[2]) : b \in BoundaryEdges}
                     \ {None}
        IN  IF found = {} THEN ret = None
            ELSE /\ ret # None
                 /\ \A f \in found :
                       Distance(ret[1], call.starting_point) <= f[1] + Slack

\* C10: the inflated position of every corner of the boundary graph is not
\* on land.
C10_InflatedCornersOffLand ==
    (Returned("nodes_and_edges_connected") /\ NoFlatTriangle) =>
        \A i \in 1..ret.corners_count : ~on_land(ret.nodes[i])

(***************************************************************************)
(* Map::new on one ring: the triangles of the island and its boundary.     *)
(***************************************************************************)
\* the triangles of the island that Map::new has returned
NewTriangles == Triangles(islands[1])

\* the boundary edges of the island that Map::new has returned
NewOuterEdges ==
    LET outer == outer_edges(call.seed)
    IN  {outer[i] : i \in 1..Len(outer)}

\* the edges share an endpoint
Adjacent(e, f) == {e[1], e[2]} \cap {f[1], f[2]} # {}

\* C11: Map::new on a simple ring of N corners returns N - 2 triangles for
\* the island, a flat list of 3 * (N - 2) points.
C11_TrianglesAreNMinusTwo ==
    Returned("new") => Len(islands[1]) = 3 * (Len(call.islands[1]) - 2)

\* C12: every triangle that Map::new returns has an area that is not zero
\* and winds anticlockwise.
C12_TrianglesAnticlockwiseWithArea ==
    Returned("new") =>
        \A triangle \in NewTriangles :
            Orientation(triangle[1], triangle[2], triangle[3]) > 0

\* C13: every boundary edge of the island that Map::new has triangulated
\* has exactly two other boundary edges that share an endpoint with it.
C13_OuterEdgesFormCycles ==
    Returned("new") =>
        \A e \in NewOuterEdges :
            Cardinality({f \in NewOuterEdges \ {e} : Adjacent(e, f)}) = 2

\* C14: nodes_and_edges_connected is a function of the Map and the points:
\* a second call on the same Map with the same points, whatever the random
\* state of its HashMap and HashSet, returns the nodes in the same order and
\* the same list of edges.
C14_SameGraphOnSecondCall ==
    Returned("nodes_and_edges_connected") =>
        \A edge_seed \in Seeds, corner_seed \in Seeds :
            LET second == nodes_and_edges_connected(edge_seed, corner_seed, call.points)
            IN  second.nodes = ret.nodes /\ second.edges = ret.edges

\* C15: the Graph that nodes_and_edges_connected returns has no edge from a
\* node to itself, whatever the points.
C15_NoEdgeToItself ==
    Returned("nodes_and_edges_connected") =>
        \A i \in 1..Len(ret.edges) : ret.edges[i][1] # ret.edges[i][2]

\* a graph is returned that has edges of the boundary and edges of injected
\* points, one of them between two injected points at the same place
C15_Witness ==
    /\ Returned("nodes_and_edges_connected")
    /\ Len(call.points) = 2
    /\ call.points[1] = call.points[2]
    /\ \E i \in 1..Len(ret.edges) : ret.edges[i][2] < ret.corners_count
    /\ <<ret.corners_count, ret.corners_count + 1>> \in GraphEdgeSet

(***************************************************************************)
(* Properties of the systems                                               *)
(***************************************************************************)
\* the run of the system s is over
Ran(s) == ran /\ system = s

\* the sum of value[x] over the x of a finite set
RECURSIVE SumOver(_, _)
SumOver(set, value) ==
    IF set = {} THEN 0
    ELSE LET x == CHOOSE y \in set : TRUE
         IN  value[x] + SumOver(set \ {x}, value)

\* the amount of an item that the entity e holds in the World w
Held(w, e, item) ==
    IF e \in DOMAIN w.cargos THEN Amount(w.cargos[e].items, item) ELSE 0

\* the amount of an item in all the cargos of the World w
TotalHeld(w, item) ==
    LET held == [e \in DOMAIN w.cargos |-> Held(w, e, item)]
    IN  SumOver(DOMAIN w.cargos, held)

\* the ships of the World w that are within DISTANCE_THRESHOLD of place
ShipsNear(w, place) ==
    {ship \in DOMAIN w.ships \cap DOMAIN w.locals :
        WithinDistanceThreshold(w.locals[ship], place)}

\* the contracts that the run has fulfilled: their entities are deleted
Fulfilled == world.deleted \ before.deleted

\* before the run the contract c had no OwnedBy, and a ship near the port of
\* its destination held the required amount of every required item
CouldBeFulfilled(c) ==
    /\ c \in DOMAIN before.contracts
    /\ c \notin DOMAIN before.owned_bys
    /\ \E ship \in ShipsNear(before, before.locals[before.contracts[c].destination]) :
           \A item \in DOMAIN before.contracts[c].goods_required :
               Held(before, ship, item) >= before.contracts[c].goods_required[item]

\* C16: FulfillContractSystem fulfils a contract only if the contract has
\* no OwnedBy and a ship within DISTANCE_THRESHOLD of the port of its
\* destination holds the required amount of every required item; the money
\* grows by the payments of the fulfilled contracts and the cargos shrink by
\* their goods; when no contract can be fulfilled, money and cargos are
\* unchanged.
C16_FulfilledOnlyWithShipAndGoods ==
    Ran("FulfillContractSystem") =>
        LET payment == [c \in Fulfilled |-> before.contracts[c].payment]
        IN  /\ \A c \in Fulfilled : CouldBeFulfilled(c)
            /\ world.player_status.money
                  = before.player_status.money + SumOver(Fulfilled, payment)
            /\ \A item \in ItemType :
                  LET required == [c \in Fulfilled |->
                                      Amount(before.contracts[c].goods_required, item)]
                  IN  /\ TotalHeld(world, item)
                           = TotalHeld(before, item) - SumOver(Fulfilled, required)
                      /\ \A e \in DOMAIN before.cargos :
                             Held(world, e, item) <= Held(before, e, item)
            /\ (\A c \in DOMAIN before.contracts : ~CouldBeFulfilled(c)) =>
                  /\ world.player_status = before.player_status
                  /\ world.cargos = before.cargos

\* one contract is fulfilled; another that no port holds is not, for want
\* of goods, and a ship is near the port of its destination
C16_Witness ==
    /\ Ran("FulfillContractSystem")
    /\ Fulfilled = {4}
    /\ 5 \notin DOMAIN before.owned_bys
    /\ ShipsNear(before, before.locals[before.contracts[5].destination]) # {}
    /\ world.player_status.money = 100

\* the contracts that a port holds and whose button has a ClickStop event
Accepted ==
    {c \in DOMAIN before.contracts \cap DOMAIN before.owned_bys :
        /\ before.owned_bys[c].entity \in before.ports
        /\ \E i \in 1..Len(before.ui_events) :
               LET event == before.ui_events[i]
               IN  /\ event.event_type = "ClickStop"
                   /\ event.target \in DOMAIN before.owned_bys
                   /\ before.owned_bys[event.target].entity = c}

C19_WaypointIndexAdvances ==
    Ran("MoveShipsSystem") =>
        \A e \in DOMAIN before.courses :
            LET course == before.courses[e]
                index == course.next_waypoint_index
            IN  IF e \in DOMAIN before.ships /\ index # None
                THEN world.courses[e].next_waypoint_index =
                        IF WithinDistanceThreshold(before.locals[e],
                                                   course.waypoints[index[1] + 1])
                        THEN (IF index[1] + 1 = Len(course.waypoints) THEN None
                              ELSE Some(index[1] + 1))
                        ELSE index
                ELSE /\ world.courses[e] = before.courses[e]
                     /\ world.locals[e] = before.locals[e]

\* the ship reaches the first of two waypoints and moves on to the second;
\* the entity without a Ship has a course and stays
C19_Witness ==
    /\ Ran("MoveShipsSystem")
    /\ 1 \notin DOMAIN before.ships
    /\ before.courses[0].next_waypoint_index = Some(0)
    /\ world.courses[0].next_waypoint_index = Some(1)
    /\ world.locals[0] # before.locals[0]
    /\ world.locals[0] # NaN

\* the query holds before the run for the entity e: TargetNearby(d) when
\* another ship is at a distance below d, TargetNotNearby(d) when none is
QueryHolds(e, state_query) ==
    LET nearby == \E other \in (DOMAIN before.ships \cap DOMAIN before.locals) \ {e} :
                      DistanceSquared(before.locals[other], before.locals[e])
                          < state_query[2] * state_query[2] * FP * FP
    IN  IF state_query[1] = "TargetNearby" THEN nearby ELSE ~nearby

\* the queries of the current state of e that hold before the run
Satisfied(e) ==
    LET ai == before.ais[e]
    IN  {state_query \in DOMAIN ai.states[ai.current_state_index + 1].transitions :
            QueryHolds(e, state_query)}

\* C20: in one run of AiSystem current_state_index becomes the state of a
\* query of the current state that holds, and is unchanged when none
\* holds; previous_state_index becomes the index that was current.
C20_AiTransitions ==
    (Ran("AiSystem") /\ ~world.panicked) =>
        \A e \in DOMAIN before.ais :
            LET ai == before.ais[e]
                transitions == ai.states[ai.current_state_index + 1].transitions
            IN  /\ world.ais[e].previous_state_index = ai.current_state_index
                /\ IF Satisfied(e) = {}
                   THEN world.ais[e].current_state_index = ai.current_state_index
                   ELSE world.ais[e].current_state_index
                            \in {transitions[state_query] : state_query \in Satisfied(e)}

\* two queries hold and lead to two states, the Ai goes to one of them and
\* its previous state is no longer the one it was
C20_Witness ==
    /\ Ran("AiSystem")
    /\ Cardinality({before.ais[1].states[1].transitions[state_query] :
                        state_query \in Satisfied(1)}) = 2
    /\ before.ais[1].current_state_index = 0
    /\ before.ais[1].previous_state_index = 2
    /\ world.ais[1].current_state_index = 2
    /\ world.ais[1].previous_state_index = 0

\* the entities of PatrolSystem whose current action is Patrol
Patrollers ==
    {e \in DOMAIN before.ais \cap DOMAIN before.patrols \cap DOMAIN before.locals :
        before.ais[e].states[before.ais[e].current_state_index + 1].action = "Patrol"}

WasPatrolling(e) ==
    before.ais[e].states[before.ais[e].previous_state_index + 1].action = "Patrol"

\* the entity has the course of one waypoint, the waypoint index of its patrol
OnCourseTo(e, index) ==
    /\ e \in DOMAIN world.courses
    /\ world.courses[e] = [waypoints |-> <<before.patrols[e].waypoints[index + 1]>>,
                           next_waypoint_index |-> Some(0)]

\* C21: in one run of PatrolSystem an entity whose current action is Patrol
\* gets, when its previous action was not Patrol, the index of a waypoint
\* nearest to it and a course of that one waypoint; when its previous action
\* was Patrol and it is within DISTANCE_THRESHOLD of the current waypoint,
\* the index (index + 1) modulo the number of waypoints and a course to that
\* waypoint; when its previous action was Patrol, it is not within the
\* threshold and it has a course, its index and its course are unchanged.
C21_PatrolPlotsCourse ==
    (Ran("PatrolSystem") /\ ~world.panicked) =>
        \A e \in Patrollers :
            LET patrol == before.patrols[e]
                waypoints == patrol.waypoints
                e_location == before.locals[e]
                index == world.patrols[e].next_waypoint_index
                reached == WithinDistanceThreshold(
                               e_location, waypoints[patrol.next_waypoint_index + 1])
            IN  /\ world.patrols[e].waypoints = waypoints
                /\ ~WasPatrolling(e) =>
                       /\ index \in 0..(Len(waypoints) - 1)
                       /\ \A j \in 1..Len(waypoints) :
                              DistanceSquared(waypoints[index + 1], e_location)
                                <= DistanceSquared(waypoints[j], e_location)
                       /\ OnCourseTo(e, index)
                /\ (WasPatrolling(e) /\ reached) =>
                       /\ index = (patrol.next_waypoint_index + 1) % Len(waypoints)
                       /\ OnCourseTo(e, index)
                /\ (WasPatrolling(e) /\ ~reached /\ e \in DOMAIN before.courses) =>
                       /\ index = patrol.next_waypoint_index
                       /\ e \in DOMAIN world.courses
                       /\ world.courses[e] = before.courses[e]

\* the pirates come from a chase on another course; of their two waypoints
\* the second is the nearer, and they are on a course to it
C21_Witness ==
    /\ Ran("PatrolSystem")
    /\ 1 \in Patrollers
    /\ ~WasPatrolling(1)
    /\ Len(before.patrols[1].waypoints) = 2
    /\ DistanceSquared(before.patrols[1].waypoints[2], before.locals[1])
          < DistanceSquared(before.patrols[1].waypoints[1], before.locals[1])
    /\ before.patrols[1].next_waypoint_index = 0
    /\ 1 \in DOMAIN before.courses
    /\ world.patrols[1].next_waypoint_index = 1
    /\ OnCourseTo(1, 1)
    /\ world.courses[1] # before.courses[1]

\* the contracts whose Expiration is expired
ExpiredContracts ==
    {e \in DOMAIN before.contracts \cap DOMAIN before.expirations :
        before.expirations[e].expired}

\* the elements that a run has put at the back of a queue
Written(queue_before, queue_after) ==
    SubSeq(queue_after, Len(queue_before) + 1, Len(queue_after))

\* C22: one run of ExpireContractSystem deletes the contracts whose
\* Expiration is expired and no other entity, writes one
\* UiUpdateEvent::Target(contract) for each of them that a port holds and
\* nothing else, and pushes one notification "A contract you have accepted
\* has expired" for each of them that has no owner and nothing else.
C22_ExpiredContractsDeleted ==
    Ran("ExpireContractSystem") =>
        LET events == Written(before.update_channel, world.update_channel)
            pushed == Written(before.notifications, world.notifications)
            held == ExpiredContracts \cap DOMAIN before.owned_bys
        IN  /\ world.deleted = before.deleted \cup ExpiredContracts
            /\ Len(world.update_channel) >= Len(before.update_channel)
            /\ Len(events) = Cardinality(held)
            /\ {events[i] : i \in 1..Len(events)} = {<<"Target", e>> : e \in held}
            /\ Len(world.notifications) >= Len(before.notifications)
            /\ Len(pushed) = Cardinality(ExpiredContracts \ held)
            /\ \A i \in 1..Len(pushed) :
                   pushed[i] = <<"A contract you have accepted has expired">>
            /\ world.contracts = before.contracts
            /\ world.owned_bys = before.owned_bys

\* both contracts have expired, 4 is held by a port and 5 was accepted
C22_Witness ==
    /\ Ran("ExpireContractSystem")
    /\ ExpiredContracts = {4, 5}
    /\ DOMAIN before.owned_bys = {4}
    /\ world.deleted = {4, 5}
    /\ world.update_channel = <<<<"Target", 4>>>>
    /\ Len(world.notifications) = 1

\* C23: after one run of ExpirationSystem an Expiration that was not
\* expired is expired exactly when the current date is later than its
\* expiration_date; on the expiration_date itself it is not.
C23_ExpiredAfterTheDate ==
    Ran("ExpirationSystem") =>
        /\ DOMAIN world.expirations = DOMAIN before.expirations
        /\ \A e \in DOMAIN before.expirations :
               ~before.expirations[e].expired =>
                   /\ world.expirations[e].expiration_date
                          = before.expirations[e].expiration_date
                   /\ world.expirations[e].expired
                          <=> (before.date.time_elapsed
                                 >= (before.expirations[e].expiration_date + 1) * 86400)

\* at the start of day 6 the contract 4 of day 5 expires and the contract 5
\* of day 6 does not
C23_Witness ==
    /\ Ran("ExpirationSystem")
    /\ before.date.time_elapsed = 6 * 86400
    /\ DOMAIN before.expirations = {4, 5}
    /\ before.expirations[4] = [expiration_date |-> 5, expired |-> FALSE]
    /\ before.expirations[5] = [expiration_date |-> 6, expired |-> FALSE]
    /\ world.expirations[4].expired
    /\ ~world.expirations[5].expired

\* the entities of CollisionSystem
Boxed == DOMAIN before.bounding_boxes \cap DOMAIN before.locals

\* the squares of two entities have a point in common
BoxesIntersect(a, b) ==
    LET box_a == as_boundaries(before.bounding_boxes[a], before.locals[a])
        box_b == as_boundaries(before.bounding_boxes[b], before.locals[b])
    IN  /\ box_a.left <= box_b.right /\ box_b.left <= box_a.right
        /\ box_a.bottom <= box_b.top /\ box_b.bottom <= box_a.top

\* the number of events entity, other_entity that the run has written
CollisionEvents(entity, other_entity) ==
    LET events == Written(before.collision_channel, world.collision_channel)
    IN  Cardinality({i \in 1..Len(events) :
                        events[i] = [entity |-> entity, other_entity |-> other_entity]})

\* C24: one run of CollisionSystem writes no event of an entity with
\* itself, no event for two entities whose bounding boxes do not intersect,
\* and for two entities whose bounding boxes intersect one event in each
\* direction.
C24_CollisionEventsBothWays ==
    Ran("CollisionSystem") =>
        /\ \A e \in Boxed : CollisionEvents(e, e) = 0
        /\ \A a \in Boxed : \A b \in Boxed \ {a} :
               IF BoxesIntersect(a, b)
               THEN CollisionEvents(a, b) = 1 /\ CollisionEvents(b, a) = 1
               ELSE CollisionEvents(a, b) = 0 /\ CollisionEvents(b, a) = 0

(***************************************************************************)
(* Properties of the query structure of Map::new                           *)
(***************************************************************************)
\* p is on the edge or on the side of it given by sign (1: to the right,
\* -1: to the left), where the edge is taken at the height of p
OnSideOf(edge, p, sign) ==
    LET top == order_by_y(edge)[1]
        bottom == order_by_y(edge)[2]
    IN  IF top[2] = bottom[2]
        THEN \E x \in {top[1], bottom[1]} : sign * (p[1] - x) >= 0
        ELSE sign * ((p[1] - top[1]) * (top[2] - bottom[2])
                        - (top[2] - p[2]) * (bottom[1] - top[1])) >= 0

\* p is in the closed region of the trapezoid: between its top and its
\* bottom, and between its left and its right edge
InRegion(trapezoid, p) ==
    /\ \A edge \in {trapezoid.left, trapezoid.right} :
          /\ edge[1] # NaN /\ edge[2] # NaN
          /\ order_by_y(edge)[2][2] <= p[2]
          /\ p[2] <= order_by_y(edge)[1][2]
    /\ OnSideOf(trapezoid.left, p, 1)
    /\ OnSideOf(trapezoid.right, p, -1)

\* the lookups query_structure.query(a) and query_structure.query(b) of the
\* build of an island, each with the build it is made on
Lookups(seed, island) ==
    LET segments == Segments(island)
        Used(build, p) ==
            \E i \in 1..Len(build.used_segments) :
                build.used_segments[i][1] = p \/ build.used_segments[i][2] = p
        Of(k) ==
            LET build == BuildAfter(seed, segments, k - 1)
                ordered == order_by_y(segments[k])
                with_a == InsertEndPoint(build, ordered[1])
            IN  {[build |-> b, point |-> p] :
                    <<b, p>> \in {<<build, ordered[1]>>, <<with_a, ordered[2]>>}}
    IN  {lookup \in UNION {Of(k) : k \in 1..Len(segments)} :
            ~Used(lookup.build, lookup.point)}

\* the lookup gives a trapezoid of the table whose region holds the point
Found(lookup) ==
    LET index == query(lookup.build.root, lookup.point)
    IN  /\ index \in DOMAIN lookup.build.trapezoids
        /\ InRegion(lookup.build.trapezoids[index], lookup.point)

\* C25: at every step of the build of the trapezoids in Map::new, the
\* lookup of an end point of a segment with QueryStructure::query gives the
\* index of a trapezoid that is in the table of trapezoids and whose region
\* holds the point.
C25_QueryFindsTrapezoidOfPoint ==
    Returned("new") =>
        \A lookup \in Lookups(call.seed, call.islands[1]) : Found(lookup)
====
